---- MODULE Spec2Model ----
(***************************************************************************)
(* A model of dinasty's PSBT container codec (src/psbts_serde.rs), of the  *)
(* multipath descriptor explosion and the import command                   *)
(* (src/commands/import.rs) and of the descriptor-scoped transaction       *)
(* accounting and its rendering (src/commands/details.rs), of the          *)
(* per-descriptor aggregator (src/commands/balance.rs), of the sign        *)
(* command (src/commands/sign.rs) and of the locktime command              *)
(* (src/commands/locktime.rs).                                             *)
(*                                                                         *)
(* Bytes are naturals in 0..255, byte strings are sequences of them.       *)
(* Option<T> is a sequence of zero or one T.  A Result is a record with a  *)
(* field kind: "Ok", "Err" or "Panic".                                     *)
(***************************************************************************)
EXTENDS Integers, Sequences, FiniteSets, TLC

\* ------------------------------------------------------------------------
\* Bounds of the model
\* ------------------------------------------------------------------------

\* the longest sequence of PSBTs handed to serialize
MaxPsbts == 3

\* ------------------------------------------------------------------------
\* Generic helpers
\* ------------------------------------------------------------------------

Min(a, b) == IF a < b THEN a ELSE b

\* s[from..], 1-based, the empty sequence when from is past the end
Drop(s, n) == SubSeq(s, n + 1, Len(s))

Take(s, n) == SubSeq(s, 1, Min(n, Len(s)))

RECURSIVE Concat(_)
Concat(ss) == IF ss = <<>> THEN <<>> ELSE Head(ss) \o Concat(Tail(ss))

RECURSIVE SeqSum(_)
SeqSum(s) == IF s = <<>> THEN 0 ELSE Head(s) + SeqSum(Tail(s))

\* all sequences over S of length lo..hi
SeqsOf(S, lo, hi) == UNION {[1..n -> S] : n \in lo..hi}

\* ------------------------------------------------------------------------
\* The PSBT data model (bitcoin::psbt::PartiallySignedTransaction)
\*   unsigned_tx.input[k].previous_output, unsigned_tx.output[k] = TxOut,
\*   inputs[k].witness_utxo : Option<TxOut>, inputs[k].partial_sigs
\* A script-pubkey is a pair <<branch, index>> (two bytes on the wire).
\* ------------------------------------------------------------------------

TxOut(value, script_pubkey) == [value |-> value, script_pubkey |-> script_pubkey]

\* a PSBT input: the outpoint it spends, its witness UTXO (zero or one
\* TxOut) and the public keys it carries a partial signature for
PsbtInput(prev, wutxo, sigs) ==
    [previous_output |-> prev, witness_utxo |-> wutxo, partial_sigs |-> sigs]

Psbt(ins, outs) == [inputs |-> ins, outputs |-> outs]

\* psbt.clone().extract_tx(): the transaction's inputs (outpoints) and outputs
extract_tx(psbt) ==
    [input  |-> [k \in 1..Len(psbt.inputs) |->
                    [previous_output |-> psbt.inputs[k].previous_output]],
     output |-> psbt.outputs]

\* tx.txid(): a hash of the unsigned transaction alone (injective here)
txid(tx) == <<[k \in 1..Len(tx.input) |-> tx.input[k].previous_output], tx.output>>

\* ------------------------------------------------------------------------
\* The PSBT binary serialization (BIP-174, bitcoin::psbt): the collaborator
\* behind psbt.serialize() and PartiallySignedTransaction::deserialize.
\*   "psbt" 0xFF  <global map>  <one map per input>  <one map per output>
\* a map is a run of pairs  <keylen> <type> <keydata> <vallen> <value>  ended
\* by a 0x00 byte.  Lengths below 253 take one byte (the only ones here).
\* ------------------------------------------------------------------------

PSBT_MAGIC == <<112, 115, 98, 116>>

PSBT_SEPARATOR == 255

PSBT_GLOBAL_UNSIGNED_TX == 0

PSBT_GLOBAL_VERSION == 251

PSBT_IN_WITNESS_UTXO == 1

PSBT_IN_PARTIAL_SIG == 2

\* the (opaque) signature byte stored under a partial-signature key
SigByte == 71

Pair(type, keydata, val) ==
    <<1 + Len(keydata), type>> \o keydata \o <<Len(val)>> \o val

TxOutBytes(o) == <<o.value>> \o o.script_pubkey

TxBytes(tx) ==
    <<Len(tx.input)>>
    \o [k \in 1..Len(tx.input) |-> tx.input[k].previous_output]
    \o <<Len(tx.output)>>
    \o Concat([k \in 1..Len(tx.output) |-> TxOutBytes(tx.output[k])])

\* the pairs of a set of public keys in ascending order (a BTreeMap)
RECURSIVE SigPairs(_)
SigPairs(pks) ==
    IF pks = {} THEN <<>>
    ELSE LET pk == CHOOSE x \in pks : \A y \in pks : x <= y
         IN  Pair(PSBT_IN_PARTIAL_SIG, <<pk>>, <<SigByte>>) \o SigPairs(pks \ {pk})

InputMapBytes(in) ==
    (IF in.witness_utxo = <<>> THEN <<>>
     ELSE Pair(PSBT_IN_WITNESS_UTXO, <<>>, TxOutBytes(in.witness_utxo[1])))
    \o SigPairs(in.partial_sigs)
    \o <<0>>

\* psbt.serialize(): the canonical serialization.  The global version pair is
\* written only for a version above 0, which no decoded PSBT has.
PsbtSerialize(psbt) ==
    PSBT_MAGIC \o <<PSBT_SEPARATOR>>
    \o Pair(PSBT_GLOBAL_UNSIGNED_TX, <<>>, TxBytes(extract_tx(psbt))) \o <<0>>
    \o Concat([k \in 1..Len(psbt.inputs) |-> InputMapBytes(psbt.inputs[k])])
    \o Concat([k \in 1..Len(psbt.outputs) |-> <<0>>])

\* raw::Pair::decode at position pos (1-based) of b
ReadPair(b, pos) ==
    IF pos > Len(b) THEN [kind |-> "err"]
    ELSE IF b[pos] = 0 THEN [kind |-> "end", next |-> pos + 1]
    ELSE LET keylen == b[pos]
             vpos   == pos + keylen + 1
         IN  IF vpos > Len(b) THEN [kind |-> "err"]
             ELSE IF vpos + b[vpos] > Len(b) THEN [kind |-> "err"]
             ELSE [kind |-> "pair",
                   type |-> b[pos + 1],
                   key  |-> SubSeq(b, pos + 2, pos + keylen),
                   val  |-> SubSeq(b, vpos + 1, vpos + b[vpos]),
                   next |-> vpos + b[vpos] + 1]

\* the pairs of one map, up to and including its 0x00 terminator
RECURSIVE ReadMap(_, _, _)
ReadMap(b, pos, acc) ==
    LET p == ReadPair(b, pos)
    IN  IF p.kind = "err" THEN [ok |-> FALSE, pairs |-> acc, next |-> pos]
        ELSE IF p.kind = "end" THEN [ok |-> TRUE, pairs |-> acc, next |-> p.next]
        ELSE ReadMap(b, p.next,
                     Append(acc, [type |-> p.type, key |-> p.key, val |-> p.val]))

PairsOfType(pairs, t) == SelectSeq(pairs, LAMBDA q : q.type = t)

NoDuplicateKeys(pairs) ==
    \A i, j \in 1..Len(pairs) :
        (pairs[i].type = pairs[j].type /\ pairs[i].key = pairs[j].key) => i = j

\* Transaction::consensus_decode of the value of the unsigned-tx pair, which
\* must be consumed whole
DecodeTx(v) ==
    IF Len(v) < 2 THEN [ok |-> FALSE]
    ELSE LET nin == v[1]
         IN  IF Len(v) < nin + 2 THEN [ok |-> FALSE]
             ELSE LET nout == v[nin + 2]
                  IN  IF Len(v) # nin + 2 + 3 * nout THEN [ok |-> FALSE]
                      ELSE [ok |-> TRUE,
                            tx |-> [input  |-> [k \in 1..nin |->
                                                  [previous_output |-> v[1 + k]]],
                                    output |-> [k \in 1..nout |->
                                                  TxOut(v[nin + 3 * k],
                                                        <<v[nin + 3 * k + 1],
                                                          v[nin + 3 * k + 2]>>)]]]

\* Psbt::decode_global: exactly one unsigned transaction; an explicit version
\* pair is accepted when its value is the 4-byte little-endian 0
DecodeGlobal(pairs) ==
    LET txs  == PairsOfType(pairs, PSBT_GLOBAL_UNSIGNED_TX)
        vers == PairsOfType(pairs, PSBT_GLOBAL_VERSION)
    IN  IF \/ Len(txs) # 1
           \/ txs[1].key # <<>>
           \/ Len(vers) > 1
           \/ Len(txs) + Len(vers) # Len(pairs)
           \/ \E k \in 1..Len(vers) : vers[k].key # <<>> \/ vers[k].val # <<0, 0, 0, 0>>
        THEN [ok |-> FALSE]
        ELSE DecodeTx(txs[1].val)

\* Input::decode of the pairs of one input map
DecodeInput(pairs, prev) ==
    LET wu   == PairsOfType(pairs, PSBT_IN_WITNESS_UTXO)
        sigs == PairsOfType(pairs, PSBT_IN_PARTIAL_SIG)
    IN  IF \/ ~NoDuplicateKeys(pairs)
           \/ Len(wu) + Len(sigs) # Len(pairs)
           \/ \E k \in 1..Len(wu) : wu[k].key # <<>> \/ Len(wu[k].val) # 3
           \/ \E k \in 1..Len(sigs) : Len(sigs[k].key) # 1 \/ sigs[k].val # <<SigByte>>
        THEN [ok |-> FALSE]
        ELSE [ok |-> TRUE,
              input |-> PsbtInput(
                  prev,
                  IF wu = <<>> THEN <<>>
                  ELSE <<TxOut(wu[1].val[1], <<wu[1].val[2], wu[1].val[3]>>)>>,
                  {sigs[k].key[1] : k \in 1..Len(sigs)})]

\* the input maps of inputs k..Len(tx.input), from position pos
RECURSIVE DecodeInputs(_, _, _, _, _)
DecodeInputs(b, pos, tx, k, acc) ==
    IF k > Len(tx.input) THEN [ok |-> TRUE, inputs |-> acc, next |-> pos]
    ELSE LET m == ReadMap(b, pos, <<>>)
         IN  IF ~m.ok THEN [ok |-> FALSE]
             ELSE LET d == DecodeInput(m.pairs, tx.input[k].previous_output)
                  IN  IF ~d.ok THEN [ok |-> FALSE]
                      ELSE DecodeInputs(b, m.next, tx, k + 1, Append(acc, d.input))

\* the (empty) output maps of outputs k..n, from position pos
RECURSIVE DecodeOutputs(_, _, _, _)
DecodeOutputs(b, pos, n, k) ==
    IF k > n THEN [ok |-> TRUE, next |-> pos]
    ELSE LET m == ReadMap(b, pos, <<>>)
         IN  IF ~m.ok \/ m.pairs # <<>> THEN [ok |-> FALSE]
             ELSE DecodeOutputs(b, m.next, n, k + 1)

\* PartiallySignedTransaction::deserialize(bytes): decodes one PSBT from the
\* start of bytes and ignores whatever follows it.  `used` is the number of
\* bytes the PSBT occupied (the caller is not told).
PsbtDeserialize(b) ==
    IF Take(b, 4) # PSBT_MAGIC THEN [kind |-> "Err", err |-> "InvalidMagic"]
    ELSE IF Len(b) < 5 \/ b[5] # PSBT_SEPARATOR
    THEN [kind |-> "Err", err |-> "InvalidSeparator"]
    ELSE LET g == ReadMap(b, 6, <<>>)
         IN  IF ~g.ok THEN [kind |-> "Err", err |-> "Malformed"]
             ELSE LET t == DecodeGlobal(g.pairs)
                  IN  IF ~t.ok THEN [kind |-> "Err", err |-> "Malformed"]
                      ELSE LET ins == DecodeInputs(b, g.next, t.tx, 1, <<>>)
                           IN  IF ~ins.ok THEN [kind |-> "Err", err |-> "Malformed"]
                               ELSE LET outs == DecodeOutputs(b, ins.next,
                                                              Len(t.tx.output), 1)
                                    IN  IF ~outs.ok
                                        THEN [kind |-> "Err", err |-> "Malformed"]
                                        ELSE [kind |-> "Ok",
                                              psbt |-> Psbt(ins.inputs, t.tx.output),
                                              used |-> outs.next - 1]

\* ------------------------------------------------------------------------
\* The PSBT container codec: src/psbts_serde.rs
\* ------------------------------------------------------------------------

\* "psbts"
MAGIC == <<112, 115, 98, 116, 115>>

SEPARATOR == 255

\* the little-endian bytes of n, k of them
RECURSIVE LeBytes(_, _)
LeBytes(n, k) == IF k = 0 THEN <<>> ELSE <<n % 256>> \o LeBytes(n \div 256, k - 1)

RECURSIVE LeValue(_)
LeValue(b) == IF b = <<>> THEN 0 ELSE Head(b) + 256 * LeValue(Tail(b))

\* VarInt(n).consensus_encode: one byte below 0xFD, else a marker byte and
\* 2, 4 or 8 little-endian bytes (counts here stay below 2^31)
VarIntEncode(n) ==
    IF n < 253 THEN <<n>>
    ELSE IF n <= 65535 THEN <<253>> \o LeBytes(n, 2)
    ELSE <<254>> \o LeBytes(n, 4)

\* VarInt::consensus_decode from the start of b: the value and the bytes
\* read, or an error (end of input, or a non-minimal encoding).  A value of
\* 2^31 or more is given as Len(b) + 1: a count no buffer of this length can
\* hold, every PSBT taking more than one byte.
VarIntDecode(b) ==
    IF b = <<>> THEN [kind |-> "Err", err |-> "Io"]
    ELSE IF b[1] < 253 THEN [kind |-> "Ok", value |-> b[1], used |-> 1]
    ELSE IF b[1] = 253
    THEN IF Len(b) < 3 THEN [kind |-> "Err", err |-> "Io"]
         ELSE IF LeValue(SubSeq(b, 2, 3)) < 253
         THEN [kind |-> "Err", err |-> "NonMinimalVarInt"]
         ELSE [kind |-> "Ok", value |-> LeValue(SubSeq(b, 2, 3)), used |-> 3]
    ELSE IF b[1] = 254
    THEN IF Len(b) < 5 THEN [kind |-> "Err", err |-> "Io"]
         ELSE IF b[5] >= 128 THEN [kind |-> "Ok", value |-> Len(b) + 1, used |-> 5]
         ELSE IF LeValue(SubSeq(b, 2, 5)) < 65536
         THEN [kind |-> "Err", err |-> "NonMinimalVarInt"]
         ELSE [kind |-> "Ok", value |-> LeValue(SubSeq(b, 2, 5)), used |-> 5]
    ELSE IF Len(b) < 9 THEN [kind |-> "Err", err |-> "Io"]
         ELSE IF SubSeq(b, 6, 9) = <<0, 0, 0, 0>>
         THEN [kind |-> "Err", err |-> "NonMinimalVarInt"]
         ELSE [kind |-> "Ok", value |-> Len(b) + 1, used |-> 9]

\* a loop that writes each PSBT's length before it
RECURSIVE ExtendAllPrefixed(_, _)
ExtendAllPrefixed(result, ps) ==
    IF ps = <<>> THEN result
    ELSE ExtendAllPrefixed(
             result \o <<Len(PsbtSerialize(Head(ps)))>> \o PsbtSerialize(Head(ps)),
             Tail(ps))

\* for psbt in psbts { result.extend(psbt.serialize()) }
RECURSIVE ExtendAll(_, _)
ExtendAll(result, ps) ==
    IF ps = <<>> THEN result
    ELSE ExtendAll(result \o PsbtSerialize(Head(ps)), Tail(ps))

\* serialize(psbts)
serialize(ps) ==
    LET r0 == <<>> \o MAGIC
        r1 == Append(r0, SEPARATOR)
        r2 == r1 \o VarIntEncode(Len(ps))
    IN  ExtendAll(r2, ps)

\* the four PSBTs the codec and the batch commands are exercised with: the
\* reference transaction's shape (one owned input, an external and a change
\* output), a signed two-input consolidation, one whose second input has no
\* witness UTXO, and one whose output exceeds its input
SamplePsbts ==
    { Psbt(<<PsbtInput(0, <<TxOut(5, <<0, 0>>)>>, {})>>,
           <<TxOut(1, <<7, 0>>), TxOut(3, <<1, 1>>)>>),
      Psbt(<<PsbtInput(0, <<TxOut(2, <<0, 1>>)>>, {1}),
             PsbtInput(1, <<TxOut(3, <<1, 0>>)>>, {})>>,
           <<TxOut(3, <<0, 0>>)>>),
      Psbt(<<PsbtInput(2, <<TxOut(2, <<0, 0>>)>>, {}), PsbtInput(3, <<>>, {1, 2})>>,
           <<TxOut(1, <<7, 0>>)>>),
      Psbt(<<PsbtInput(4, <<TxOut(1, <<0, 0>>)>>, {})>>,
           <<TxOut(2, <<0, 0>>)>>) }

\* the leading bytes of a container that Corrupt may damage: the magic, the
\* separator, the count and the first PSBT's own magic byte
HeaderSpan == 8

\* the values a damaged byte takes
DamageBytes == {0, 2, 112, 253, 255}

\* what may follow a container
TrailingBytes == {<<0>>, <<112, 115>>}

VARIABLES
    psbts,       \* serialize's argument
    bytes,       \* the container: serialize's result, deserialize's argument
    cpc,         \* where the codec run is: "init", "serialized", "received", "loop", "done"
    rest,        \* deserialize: `bytes` once magic, separator and count are read
    len,         \* deserialize: the declared count
    bytes_read,  \* deserialize: the offset into rest of the next PSBT
    iter,        \* deserialize: the loop counter i
    result,      \* deserialize: the PSBTs decoded so far
    ret          \* deserialize's return value, <<>> while it runs

codecVars == <<psbts, bytes, cpc, rest, len, bytes_read, iter, result, ret>>

CodecIdle ==
    /\ bytes = <<>>
    /\ cpc = "init"
    /\ rest = <<>>
    /\ len = 0
    /\ bytes_read = 0
    /\ iter = 0
    /\ result = <<>>
    /\ ret = <<>>

CodecInit ==
    /\ psbts \in SeqsOf(SamplePsbts, 0, MaxPsbts)
    /\ CodecIdle

\* the caller hands psbts to serialize and keeps the bytes
Serialize ==
    /\ cpc = "init"
    /\ bytes' = serialize(psbts)
    /\ cpc' = "serialized"
    /\ UNCHANGED <<psbts, rest, len, bytes_read, iter, result, ret>>

\* the explicit global version pair a PSBT producer may write (version 0)
VersionPair == Pair(PSBT_GLOBAL_VERSION, <<>>, <<0, 0, 0, 0>>)

\* the bytes deserialize is handed need not be serialize's: a file or a pipe
\* may cut them short, damage one of the leading bytes, start with another
\* magic and separator (and end after them), carry extra bytes after the
\* container, or hold a PSBT another producer wrote with an explicit version
\* pair in its global map
Corrupt ==
    /\ cpc = "serialized"
    /\ \/ \E n \in 0..(Len(bytes) - 1) : bytes' = Take(bytes, n)
       \/ \E k \in 1..Min(HeaderSpan, Len(bytes)), v \in DamageBytes :
              /\ bytes[k] # v
              /\ bytes' = [bytes EXCEPT ![k] = v]
       \/ \E k \in 1..Len(MAGIC), v \in DamageBytes, w \in DamageBytes,
             n \in {Len(MAGIC), Len(MAGIC) + 1, Len(bytes)} :
              /\ bytes[k] # v
              /\ bytes' = Take([bytes EXCEPT ![k] = v, ![Len(MAGIC) + 1] = w], n)
       \/ \E t \in TrailingBytes : bytes' = bytes \o t
       \/ /\ psbts # <<>>
          /\ LET at == Len(MAGIC) + 1 + Len(VarIntEncode(Len(psbts)))
                       + Len(PSBT_MAGIC) + 1
             IN  bytes' = Take(bytes, at) \o VersionPair \o Drop(bytes, at)
    /\ cpc' = "received"
    /\ UNCHANGED <<psbts, rest, len, bytes_read, iter, result, ret>>

DecodeErr(e) == <<[kind |-> "Err", err |-> e]>>

\* DecodeError::WrongMagic holding the expected magic
WrongMagicExpected(magic) == <<"WrongMagic", MAGIC>>

\* DecodeError::WrongMagic(magic)
WrongMagic(magic) == <<"WrongMagic", magic>>

\* a header check that looks at the separator first
CheckHeaderSeparatorFirst(b) ==
    IF Len(b) < 5 THEN [kind |-> "Err", err |-> <<"ConsensusDecode", "Io">>]
    ELSE IF Len(b) >= 6 /\ b[6] # SEPARATOR
    THEN [kind |-> "Err", err |-> <<"WrongSeparator">>]
    ELSE IF Take(b, 5) # MAGIC THEN [kind |-> "Err", err |-> WrongMagic(Take(b, 5))]
    ELSE IF Len(b) < 6 THEN [kind |-> "Err", err |-> <<"ConsensusDecode", "Io">>]
    ELSE [kind |-> "Ok"]

\* deserialize, lines 43-51: read five bytes and compare them with MAGIC,
\* then read one byte and compare it with SEPARATOR
CheckHeader(b) ==
    IF Len(b) < 5 THEN [kind |-> "Err", err |-> <<"ConsensusDecode", "Io">>]
    ELSE IF Take(b, 5) # MAGIC THEN [kind |-> "Err", err |-> WrongMagic(Take(b, 5))]
    ELSE IF Len(b) < 6 THEN [kind |-> "Err", err |-> <<"ConsensusDecode", "Io">>]
    ELSE IF b[6] # SEPARATOR THEN [kind |-> "Err", err |-> <<"WrongSeparator">>]
    ELSE [kind |-> "Ok"]

\* deserialize, lines 41-54: magic, separator and count
DeserializeHeader ==
    /\ cpc \in {"serialized", "received"}
    /\ LET header == CheckHeader(bytes)
           after  == Drop(bytes, 6)
           n      == VarIntDecode(after)
       IN  IF header.kind = "Err"
           THEN /\ ret' = DecodeErr(header.err)
                /\ cpc' = "done"
                /\ UNCHANGED <<rest, len>>
           ELSE IF n.kind = "Err"
           THEN /\ ret' = DecodeErr(<<"ConsensusDecode", n.err>>)
                /\ cpc' = "done"
                /\ UNCHANGED <<rest, len>>
           ELSE /\ rest' = Drop(after, n.used)
                /\ len' = n.value
                /\ cpc' = "loop"
                /\ UNCHANGED ret
    /\ UNCHANGED <<psbts, bytes, bytes_read, iter, result>>

\* bytes_read = psbt.serialize().len()
AdvanceAssign(read, psbt) == Len(PsbtSerialize(psbt))

\* an offset that skips one byte after each PSBT
AdvanceSkip(read, psbt) == read + Len(PsbtSerialize(psbt)) + 1

\* bytes_read += psbt.serialize().len()
Advance(read, psbt) == read + Len(PsbtSerialize(psbt))

\* deserialize, lines 55-63: one turn of the loop.  Slicing past the end of
\* the buffer panics.
DeserializeLoop ==
    /\ cpc = "loop"
    /\ iter < len
    /\ IF bytes_read > Len(rest)
       THEN /\ ret' = <<[kind |-> "Panic"]>>
            /\ cpc' = "done"
            /\ UNCHANGED <<bytes_read, iter, result>>
       ELSE LET d == PsbtDeserialize(Drop(rest, bytes_read))
            IN  IF d.kind = "Err"
                THEN /\ ret' = DecodeErr(<<"PsbtDecode", d.err>>)
                     /\ cpc' = "done"
                     /\ UNCHANGED <<bytes_read, iter, result>>
                ELSE /\ bytes_read' = Advance(bytes_read, d.psbt)
                     /\ result' = Append(result, d.psbt)
                     /\ iter' = iter + 1
                     /\ UNCHANGED <<ret, cpc>>
    /\ UNCHANGED <<psbts, bytes, rest, len>>

\* deserialize, line 65: Ok(result)
DeserializeReturn ==
    /\ cpc = "loop"
    /\ iter = len
    /\ ret' = <<[kind |-> "Ok", value |-> result]>>
    /\ cpc' = "done"
    /\ UNCHANGED <<psbts, bytes, rest, len, bytes_read, iter, result>>


\* ------------------------------------------------------------------------
\* Multipath descriptor explosion: src/commands/import.rs
\* A string is a sequence of one-character strings.
\* ------------------------------------------------------------------------

\* "<0;1>"
MULTIPATH == <<"<", "0", ";", "1", ">">>

\* whether pat occurs in s at position k (1-based)
MatchAt(s, pat, k) ==
    /\ k + Len(pat) - 1 <= Len(s)
    /\ SubSeq(s, k, k + Len(pat) - 1) = pat

\* str::contains
contains(s, pat) == \E k \in 1..Len(s) : MatchAt(s, pat, k)

\* str::replace: the matches of `from` are found left to right without
\* overlap; the text between two matches is copied, each match gives `to`
RECURSIVE ReplaceScan(_, _, _, _, _, _)
ReplaceScan(s, from, to, last_end, pos, out) ==
    IF pos > Len(s) THEN out \o SubSeq(s, last_end, Len(s))
    ELSE IF MatchAt(s, from, pos)
    THEN ReplaceScan(s, from, to, pos + Len(from), pos + Len(from),
                     out \o SubSeq(s, last_end, pos - 1) \o to)
    ELSE ReplaceScan(s, from, to, last_end, pos + 1, out)

replace(s, from, to) == ReplaceScan(s, from, to, 1, 1, <<>>)

\* the pieces of s between the occurrences of the character sep
RECURSIVE SplitOn(_, _, _, _)
SplitOn(s, sep, cur, acc) ==
    IF s = <<>> THEN Append(acc, cur)
    ELSE IF Head(s) = sep THEN SplitOn(Tail(s), sep, <<>>, Append(acc, cur))
    ELSE SplitOn(Tail(s), sep, Append(cur, Head(s)), acc)

IsNum(t) == t # <<>> /\ \A k \in 1..Len(t) : t[k] \in {"0", "1"}

\* <n;n;...>: a multipath step, which only a public key may carry
IsMultipathStep(t) ==
    /\ Len(t) >= 5
    /\ t[1] = "<"
    /\ t[Len(t)] = ">"
    /\ LET alts == SplitOn(SubSeq(t, 2, Len(t) - 1), ";", <<>>, <<>>)
       IN  Len(alts) >= 2 /\ \A k \in 1..Len(alts) : IsNum(alts[k])

\* a key expression: K (an extended public key) or k (an extended private
\* key), then derivation steps: numbers, at most one multipath step (public
\* keys only) and a wildcard in the last place only
IsKeyExpr(e) ==
    LET parts == SplitOn(e, "/", <<>>, <<>>)
    IN  /\ parts[1] \in {<<"K">>, <<"k">>}
        /\ \A k \in 2..Len(parts) :
              \/ IsNum(parts[k])
              \/ parts[k] = <<"*">> /\ k = Len(parts)
              \/ parts[1] = <<"K">> /\ IsMultipathStep(parts[k])
        /\ Cardinality({k \in 2..Len(parts) : IsMultipathStep(parts[k])}) <= 1

\* miniscript::Descriptor::parse_descriptor: the key expressions of the
\* descriptor, and the map of its private keys (here the places they are at)
parse_descriptor(s) ==
    LET keys == SplitOn(s, ",", <<>>, <<>>)
    IN  IF \A k \in 1..Len(keys) : IsKeyExpr(keys[k])
        THEN [kind |-> "Ok",
              key_map |-> {k \in 1..Len(keys) : keys[k][1] = "k"}]
        ELSE [kind |-> "Err"]

\* a use of str::replace that replaces the first match only
SubstituteFirst(desc, branch) ==
    IF ~contains(desc, MULTIPATH) THEN desc
    ELSE LET k == CHOOSE j \in 1..Len(desc) :
                      /\ MatchAt(desc, MULTIPATH, j)
                      /\ \A h \in 1..(j - 1) : ~MatchAt(desc, MULTIPATH, h)
         IN  SubSeq(desc, 1, k - 1) \o <<branch>>
             \o SubSeq(desc, k + Len(MULTIPATH), Len(desc))

\* desc.replace(MULTIPATH, branch)
Substitute(desc, branch) == replace(desc, MULTIPATH, <<branch>>)

\* a check of the private-key flag that lets a secret descriptor through
CheckPrivateKeysOneWay(with_private_keys, key_map) ==
    IF with_private_keys /\ key_map = {}
    THEN "WithPrivateKeyFlagButPublicDescriptor"
    ELSE "Ok"

\* explode_descriptor, lines 90-95: the flag against the private keys found
CheckPrivateKeys(with_private_keys, key_map) ==
    IF with_private_keys /\ key_map = {}
    THEN "WithPrivateKeyFlagButPublicDescriptor"
    ELSE IF ~with_private_keys /\ key_map # {}
    THEN "WithoutPrivateKeyFlagButSecretDescriptor"
    ELSE "Ok"

\* a marker test that is content with the marker's first character
HasMarkerStart(desc) == \E k \in 1..Len(desc) : desc[k] = MULTIPATH[1]

\* desc.contains(MULTIPATH)
HasMultipath(desc) == contains(desc, MULTIPATH)

\* explode_descriptor(desc, with_private_keys)
explode_descriptor(desc, with_private_keys) ==
    IF ~HasMultipath(desc)
    THEN [kind |-> "Err", err |-> "DescriptorIsntMultipath"]
    ELSE LET external == Substitute(desc, "0")
             internal == Substitute(desc, "1")
             parsed   == parse_descriptor(external)
         IN  IF parsed.kind = "Err" THEN [kind |-> "Err", err |-> "Miniscript"]
             ELSE IF CheckPrivateKeys(with_private_keys, parsed.key_map) # "Ok"
             THEN [kind |-> "Err",
                   err  |-> CheckPrivateKeys(with_private_keys, parsed.key_map)]
             ELSE [kind |-> "Ok", internal |-> internal, external |-> external]

\* the most pieces a descriptor string is put together from
MaxPieces == 4

\* the pieces: a public and a private key with the slash after it, the
\* marker whole and in two halves, a second key (private, and public with
\* the slash after it), a wildcard step
Pieces ==
    { <<"K", "/">>, <<"k", "/">>, MULTIPATH, <<"<", "0", ";">>, <<"1", ">">>,
      <<",", "k", "/", "0">>, <<",", "K", "/">>, <<"/", "*">> }

VARIABLES
    desc,               \* the descriptor string handed to explode_descriptor
    npieces,            \* the pieces desc was put together from
    with_private_keys,  \* the flag of the call
    exploded            \* explode_descriptor's return value, <<>> before the call

explodeVars == <<desc, npieces, with_private_keys, exploded>>

ExplodeInit ==
    /\ desc = <<>>
    /\ npieces = 0
    /\ with_private_keys = FALSE
    /\ exploded = <<>>

\* the caller writes the descriptor string
PushPiece ==
    /\ exploded = <<>>
    /\ npieces < MaxPieces
    /\ \E p \in Pieces : desc' = desc \o p
    /\ npieces' = npieces + 1
    /\ UNCHANGED <<with_private_keys, exploded>>

\* a call of explode_descriptor
Explode ==
    /\ exploded = <<>>
    /\ \E flag \in BOOLEAN :
          /\ with_private_keys' = flag
          /\ exploded' = <<explode_descriptor(desc, flag)>>
    /\ UNCHANGED <<desc, npieces>>


\* ------------------------------------------------------------------------
\* Descriptor-scoped accounting: src/commands/details.rs
\* ------------------------------------------------------------------------

\* how_many_per_desc: the scripts MyScripts derives per descriptor (the
\* program passes 1_000; the model derives fewer)
Horizon == 2

\* u64 arithmetic is modulo 2^64.  TLC's integers have 32 bits, so the
\* model's unsigned integers have 30; every amount drawn is far below.
U64Modulus == 2 ^ 30

\* the public descriptors: the receive and the change branch of one key,
\* and the two-branch (multipath) descriptor of the same key
Descriptors == {"tr(K/0/*)", "tr(K/1/*)", "tr(K/<0;1>/*)"}

\* Descriptor::to_string: the descriptor followed by '#' and its checksum
to_string(descriptor) ==
    descriptor \o "#"
    \o CASE descriptor = "tr(K/0/*)" -> "xq5v4q9d"
         [] descriptor = "tr(K/1/*)" -> "74yp4s9l"
         [] OTHER -> "0ppqg948"

\* descriptor.at_derivation_index(i): ConversionError::MultiKey for a
\* multipath key, else the descriptor with its wildcard replaced by i
at_derivation_index(descriptor, i) ==
    IF descriptor = "tr(K/<0;1>/*)"
    THEN [kind |-> "Err", err |-> <<"Coonversion", "MultiKey">>]
    ELSE [kind |-> "Ok", branch |-> IF descriptor = "tr(K/0/*)" THEN 0 ELSE 1,
          index |-> i]

\* derived.script_pubkey()
script_pubkey(derived) == <<derived.branch, derived.index>>

\* the script of descriptor D at index i (D single-path)
script_at(descriptor, i) == script_pubkey(at_derivation_index(descriptor, i))

\* the first byte of a script no address stands for (OP_RETURN)
OP_RETURN == 106

\* Address::from_script(script, network)
AddressFromScript(script, network) ==
    IF script[1] = OP_RETURN THEN [kind |-> "Err"]
    ELSE [kind |-> "Ok", address |-> <<network, script>>]

\* MyScripts::new
MyScriptsNew(how_many_per_desc) ==
    [descriptors |-> <<>>, cache |-> {}, how_many_per_desc |-> how_many_per_desc]

\* a cache that keeps the last script only
CacheReplace(cache, script) == {script}

\* self.cache.insert(script)
CacheInsert(cache, script) == cache \cup {script}

\* for i in 0..self.how_many_per_desc, from i on: self as the loop leaves it
\* and the loop's outcome
RECURSIVE AddLoop(_, _, _)
AddLoop(self, descriptor, i) ==
    IF i >= self.how_many_per_desc
    THEN [self |-> self, ret |-> [kind |-> "Ok"]]
    ELSE LET derived == at_derivation_index(descriptor, i)
         IN  IF derived.kind = "Err"
             THEN [self |-> self, ret |-> derived]
             ELSE AddLoop([self EXCEPT !.cache = CacheInsert(@, script_pubkey(derived))],
                          descriptor, i + 1)

\* MyScripts::add: self afterwards and the return value
add(self, descriptor) ==
    LET l == AddLoop(self, descriptor, 0)
    IN  IF l.ret.kind = "Err" THEN l
        ELSE [self |-> [l.self EXCEPT !.descriptors = Append(@, to_string(descriptor))],
              ret  |-> [kind |-> "Ok"]]

\* MyScripts::contains
my_scripts_contains(self, script) == script \in self.cache

SatPerBtc == 100000000

\* amount8(satoshi): the amount in BTC with nine decimals (the text
\* "<btc>.<frac>", right-aligned in 13 columns)
amount8(satoshi) ==
    [btc |-> satoshi \div SatPerBtc, frac |-> (satoshi % SatPerBtc) * 10]

VARIABLES
    overflow_checks, \* the build: TRUE when integer overflow panics (debug),
                     \* FALSE when it wraps (release)
    my_scripts,      \* the MyScripts index
    added,           \* the last call of add on it (the index before, the
                     \* descriptor and the return value), <<>> before the first
    psbt,            \* the PSBT under classification
    detail,          \* the last call of psbt_detail (the index it was handed
                     \* and its return value), <<>> before the first
    report           \* the call of psbt_details (its arguments and its return
                     \* value), <<>> before the call

detailVars == <<overflow_checks, my_scripts, added, psbt, detail, report>>

\* sum_inputs - sum_outputs on u64: panics in a build with overflow checks,
\* wraps in one without
U64Sub(a, b) ==
    IF a >= b THEN [kind |-> "Ok", value |-> a - b]
    ELSE IF overflow_checks THEN [kind |-> "Panic"]
    ELSE [kind |-> "Ok", value |-> a - b + U64Modulus]

\* whether the input loop adds this input's value to outgoing
InputIsMine(self, tx_out) == my_scripts_contains(self, tx_out.script_pubkey)

\* whether the output loop adds this output's value to incoming
OutputIsMine(self, tx_out) == my_scripts_contains(self, tx_out.script_pubkey)

\* the input loop with a break after the first owned input
RECURSIVE InputLoopBreak(_, _, _, _, _)
InputLoopBreak(p, tx, self, k, acc) ==
    IF k > Len(p.inputs) THEN [kind |-> "Ok", acc |-> acc]
    ELSE IF p.inputs[k].witness_utxo = <<>>
    THEN [kind |-> "Err", err |-> <<"MissingWitnessUtxo", k - 1>>]
    ELSE LET tx_out == p.inputs[k].witness_utxo[1]
             mine   == InputIsMine(self, tx_out)
             next   == [sum_inputs |-> acc.sum_inputs + tx_out.value,
                        outgoing   |-> IF mine THEN acc.outgoing + tx_out.value
                                       ELSE acc.outgoing,
                        inputs     |-> Append(acc.inputs,
                                         [label |-> "in", idx |-> k - 1,
                                          amount |-> amount8(tx_out.value),
                                          ref |-> tx.input[k].previous_output,
                                          mine |-> mine])]
         IN  IF mine THEN [kind |-> "Ok", acc |-> next]
             ELSE InputLoopBreak(p, tx, self, k + 1, next)

\* the input loop reporting a missing witness UTXO under the input's
\* 1-based number
RECURSIVE InputLoopOneBased(_, _, _, _, _)
InputLoopOneBased(p, tx, self, k, acc) ==
    IF k > Len(p.inputs) THEN [kind |-> "Ok", acc |-> acc]
    ELSE IF p.inputs[k].witness_utxo = <<>>
    THEN [kind |-> "Err", err |-> <<"MissingWitnessUtxo", k>>]
    ELSE LET tx_out == p.inputs[k].witness_utxo[1]
             mine   == InputIsMine(self, tx_out)
         IN  InputLoopOneBased(p, tx, self, k + 1,
                 [sum_inputs |-> acc.sum_inputs + tx_out.value,
                  outgoing   |-> IF mine THEN acc.outgoing + tx_out.value
                                 ELSE acc.outgoing,
                  inputs     |-> Append(acc.inputs,
                                   [label |-> "in", idx |-> k - 1,
                                    amount |-> amount8(tx_out.value),
                                    ref |-> tx.input[k].previous_output,
                                    mine |-> mine])])

\* psbt_detail, lines 150-168: the loop over psbt.inputs from input k on
\* (k is 1-based here, the code's index is k - 1)
RECURSIVE InputLoop(_, _, _, _, _)
InputLoop(p, tx, self, k, acc) ==
    IF k > Len(p.inputs) THEN [kind |-> "Ok", acc |-> acc]
    ELSE IF p.inputs[k].witness_utxo = <<>>
    THEN [kind |-> "Err", err |-> <<"MissingWitnessUtxo", k - 1>>]
    ELSE LET tx_out == p.inputs[k].witness_utxo[1]
             mine   == InputIsMine(self, tx_out)
         IN  InputLoop(p, tx, self, k + 1,
                 [sum_inputs |-> acc.sum_inputs + tx_out.value,
                  outgoing   |-> IF mine THEN acc.outgoing + tx_out.value
                                 ELSE acc.outgoing,
                  inputs     |-> Append(acc.inputs,
                                   [label |-> "in", idx |-> k - 1,
                                    amount |-> amount8(tx_out.value),
                                    ref |-> tx.input[k].previous_output,
                                    mine |-> mine])])

\* psbt_detail, lines 170-186: the loop over tx.output from output k on
RECURSIVE OutputLoop(_, _, _, _, _)
OutputLoop(tx, self, network, k, acc) ==
    IF k > Len(tx.output) THEN [kind |-> "Ok", acc |-> acc]
    ELSE LET tx_out  == tx.output[k]
             mine    == OutputIsMine(self, tx_out)
             address == AddressFromScript(tx_out.script_pubkey, network)
         IN  IF address.kind = "Err" THEN [kind |-> "Panic"]
             ELSE OutputLoop(tx, self, network, k + 1,
                      [sum_outputs |-> acc.sum_outputs + tx_out.value,
                       incoming    |-> IF mine THEN acc.incoming + tx_out.value
                                       ELSE acc.incoming,
                       outputs     |-> Append(acc.outputs,
                                         [label |-> "out", idx |-> k - 1,
                                          amount |-> amount8(tx_out.value),
                                          ref |-> address.address,
                                          mine |-> mine])])

\* the fee psbt_detail stores: Amount::from_sat(sum_inputs - sum_outputs)
Fee(sum_inputs, sum_outputs) == U64Sub(sum_inputs, sum_outputs)

\* psbt_detail(i, psbt, my_scripts, network)
psbt_detail(i, p, self, network) ==
    LET tx  == extract_tx(p)
        ins == InputLoop(p, tx, self, 1,
                         [sum_inputs |-> 0, outgoing |-> 0, inputs |-> <<>>])
    IN  IF ins.kind # "Ok" THEN ins
        ELSE LET outs == OutputLoop(tx, self, network, 1,
                             [sum_outputs |-> 0, incoming |-> 0, outputs |-> <<>>])
             IN  IF outs.kind # "Ok" THEN outs
                 ELSE LET fee == Fee(ins.acc.sum_inputs, outs.acc.sum_outputs)
                      IN  IF fee.kind # "Ok" THEN fee
                          ELSE [kind |-> "Ok",
                                value |-> [i           |-> i,
                                           txid        |-> txid(tx),
                                           descriptors |-> self.descriptors,
                                           outgoing    |-> ins.acc.outgoing,
                                           incoming    |-> outs.acc.incoming,
                                           fee         |-> fee.value,
                                           inputs      |-> ins.acc.inputs,
                                           outputs     |-> outs.acc.outputs]]

\* GroupDetail::default()
GroupDefault == [details |-> <<>>, outgoing |-> 0, incoming |-> 0, fee |-> 0]

\* Amount += Amount: checked, panics ("Amount addition error") past u64::MAX
AmountAdd(a, b) ==
    IF a + b >= U64Modulus THEN [kind |-> "Panic"] ELSE [kind |-> "Ok", value |-> a + b]

\* a merge that stores the merged detail's fee instead of adding it
mergeFeeAssign(self, other) ==
    [kind |-> "Ok",
     self |-> [details  |-> Append(self.details, other),
               outgoing |-> self.outgoing + other.outgoing,
               incoming |-> self.incoming + other.incoming,
               fee      |-> other.fee]]

\* a merge that puts the merged detail first
mergePrepend(self, other) ==
    LET o == AmountAdd(self.outgoing, other.outgoing)
        n == AmountAdd(self.incoming, other.incoming)
        f == AmountAdd(self.fee, other.fee)
    IN  IF o.kind = "Panic" \/ n.kind = "Panic" \/ f.kind = "Panic"
        THEN [kind |-> "Panic"]
        ELSE [kind |-> "Ok",
              self |-> [details  |-> <<other>> \o self.details,
                        outgoing |-> o.value,
                        incoming |-> n.value,
                        fee      |-> f.value]]

\* GroupDetail::merge: self afterwards, or the panic of an amount overflow
merge(self, other) ==
    LET o == AmountAdd(self.outgoing, other.outgoing)
        n == AmountAdd(self.incoming, other.incoming)
        f == AmountAdd(self.fee, other.fee)
    IN  IF o.kind = "Panic" \/ n.kind = "Panic" \/ f.kind = "Panic"
        THEN [kind |-> "Panic"]
        ELSE [kind |-> "Ok",
              self |-> [details  |-> Append(self.details, other),
                        outgoing |-> o.value,
                        incoming |-> n.value,
                        fee      |-> f.value]]

\* a loop over the descriptors that leaves out those add fails on
RECURSIVE AddAllSkipFailed(_, _)
AddAllSkipFailed(self, descriptors) ==
    IF descriptors = <<>> THEN [kind |-> "Ok", self |-> self]
    ELSE AddAllSkipFailed(add(self, Head(descriptors)).self, Tail(descriptors))

\* psbt_details, lines 45-47: for descriptor in descriptors { add(descriptor)? }
RECURSIVE AddAll(_, _)
AddAll(self, descriptors) ==
    IF descriptors = <<>> THEN [kind |-> "Ok", self |-> self]
    ELSE LET a == add(self, Head(descriptors))
         IN  IF a.ret.kind = "Err" THEN a.ret
             ELSE AddAll(a.self, Tail(descriptors))

\* psbt_details, lines 49-52: the loop over the PSBTs from index i on
RECURSIVE ClassifyAll(_, _, _, _, _)
ClassifyAll(group, ps, i, self, network) ==
    IF i >= Len(ps) THEN [kind |-> "Ok", value |-> group]
    ELSE LET balance == psbt_detail(i, ps[i + 1], self, network)
         IN  IF balance.kind # "Ok" THEN balance
             ELSE LET m == merge(group, balance.value)
                  IN  IF m.kind # "Ok" THEN m
                      ELSE ClassifyAll(m.self, ps, i + 1, self, network)

\* psbt_details(psbts, descriptors, network)
psbt_details(ps, descriptors, network) ==
    LET scripts == AddAll(MyScriptsNew(Horizon), descriptors)
    IN  IF scripts.kind # "Ok" THEN scripts
        ELSE ClassifyAll(GroupDefault, ps, 0, scripts.self, network)

\* ---- rendering: Display for PsbtDetail and GroupDetail -----------------
\* The text is a sequence of lines, a line a record with its label.

\* i64::MAX + 1 at the model's width
I64Limit == U64Modulus \div 2

\* Amount::to_signed: an error above i64::MAX
to_signed(amount) ==
    IF amount >= I64Limit THEN [kind |-> "Err", err |-> "TooBig"]
    ELSE [kind |-> "Ok", value |-> amount]

\* a net balance taken the other way round
net_balanceSwapped(self) ==
    IF to_signed(self.incoming).kind = "Err" \/ to_signed(self.outgoing).kind = "Err"
    THEN [kind |-> "Panic"]
    ELSE [kind |-> "Ok",
          value |-> to_signed(self.outgoing).value - to_signed(self.incoming).value]

\* GroupDetail::net_balance: both totals unwrapped to signed amounts
net_balance(self) ==
    IF to_signed(self.incoming).kind = "Err" \/ to_signed(self.outgoing).kind = "Err"
    THEN [kind |-> "Panic"]
    ELSE [kind |-> "Ok",
          value |-> to_signed(self.incoming).value - to_signed(self.outgoing).value]

\* format!("{:>13.9}", signed.to_btc()): sign, whole part, nine decimals
signed9(satoshi) ==
    LET magnitude == IF satoshi < 0 THEN -satoshi ELSE satoshi
    IN  [negative |-> satoshi < 0,
         btc      |-> magnitude \div SatPerBtc,
         frac     |-> (magnitude % SatPerBtc) * 10]

\* Display for PsbtDetail: the header, the inputs, the outputs, the fee
PsbtDetailDisplay(self) ==
    <<[label |-> "tx", idx |-> self.i, txid |-> self.txid]>>
    \o self.inputs
    \o self.outputs
    \o <<[label |-> "fee", amount |-> amount8(self.fee)]>>

\* Display for GroupDetail, lines 124-130: the recap
Recap(self, net) ==
    <<[label |-> "#txs", count |-> Len(self.details)],
      [label |-> "fees", amount |-> amount8(self.fee)],
      [label |-> "net", amount |-> signed9(net)]>>

\* Display for GroupDetail (to_string): each detail and an empty line after
\* it, then the recap; net_balance's unwrap panics on a total above i64::MAX
GroupDetailDisplay(self) ==
    LET net == net_balance(self)
    IN  IF net.kind = "Panic" THEN net
        ELSE [kind  |-> "Ok",
              value |-> Concat([k \in 1..Len(self.details) |->
                                  PsbtDetailDisplay(self.details[k])
                                  \o <<[label |-> ""]>>])
                        \o Recap(self, net.value)]

\* ---- the classifier's inputs -------------------------------------------

\* the most inputs and outputs of a PSBT under classification
MaxInputs == 2

MaxOutputs == 2

\* the most descriptors added to one index
MaxAdds == 2

Network == "regtest"

\* what an input may carry: no witness UTXO, or one paying to the first
\* script of the receive branch or to the last script (within the horizon)
\* of the change branch, without or with partial signatures
InputChoices ==
    { [witness_utxo |-> <<>>, partial_sigs |-> {}],
      [witness_utxo |-> <<TxOut(2, script_at("tr(K/0/*)", 0))>>, partial_sigs |-> {}],
      [witness_utxo |-> <<TxOut(2, script_at("tr(K/0/*)", 0))>>, partial_sigs |-> {1}],
      [witness_utxo |-> <<TxOut(3, script_at("tr(K/1/*)", Horizon - 1))>>,
       partial_sigs |-> {}],
      [witness_utxo |-> <<TxOut(1, script_at("tr(K/1/*)", Horizon - 1))>>,
       partial_sigs |-> {1, 2}] }

\* what an output may be: a payment to either script, or a data carrier
OutputChoices ==
    { TxOut(1, script_at("tr(K/0/*)", 0)),
      TxOut(2, script_at("tr(K/1/*)", Horizon - 1)),
      TxOut(1, <<OP_RETURN, 0>>) }

\* the PSBTs classified: one input at least, input k spending outpoint k - 1
Psbts ==
    { Psbt([k \in 1..Len(ins) |->
               PsbtInput(k - 1, ins[k].witness_utxo, ins[k].partial_sigs)], outs) :
        ins \in SeqsOf(InputChoices, 1, MaxInputs),
        outs \in SeqsOf(OutputChoices, 0, MaxOutputs) }

\* the PSBTs psbt_details is handed before the one under classification
BatchPrefixes ==
    { <<>>,
      <<Psbt(<<PsbtInput(8, <<TxOut(5, <<0, 0>>)>>, {})>>, <<TxOut(3, <<1, 1>>)>>)>> }

\* the descriptor lists psbt_details is handed
DescriptorLists ==
    { <<>>, <<"tr(K/0/*)">>, <<"tr(K/0/*)", "tr(K/1/*)">>, <<"tr(K/<0;1>/*)">>,
      <<"tr(K/0/*)", "tr(K/<0;1>/*)">> }

DetailIdle ==
    /\ my_scripts = MyScriptsNew(Horizon)
    /\ added = <<>>
    /\ psbt = Psbt(<<>>, <<>>)
    /\ detail = <<>>
    /\ report = <<>>

DetailInit ==
    /\ overflow_checks \in BOOLEAN
    /\ my_scripts = MyScriptsNew(Horizon)
    /\ added = <<>>
    /\ psbt \in Psbts
    /\ detail = <<>>
    /\ report = <<>>

\* an add after which the detail taken before follows the index
AddRefreshing ==
    /\ report = <<>>
    /\ Len(my_scripts.descriptors) < MaxAdds
    /\ \E descriptor \in Descriptors :
          /\ my_scripts' = add(my_scripts, descriptor).self
          /\ added' = <<[before     |-> my_scripts,
                         descriptor |-> descriptor,
                         ret        |-> add(my_scripts, descriptor).ret]>>
    /\ detail' = IF detail = <<>> THEN detail
                 ELSE <<[my_scripts |-> detail[1].my_scripts,
                         ret        |-> psbt_detail(0, psbt, my_scripts', Network)]>>
    /\ UNCHANGED <<overflow_checks, psbt, report>>

\* my_scripts.add(descriptor); a PsbtDetail taken before owns its strings
\* and amounts and is left alone
Add ==
    /\ report = <<>>
    /\ Len(my_scripts.descriptors) < MaxAdds
    /\ \E descriptor \in Descriptors :
          /\ my_scripts' = add(my_scripts, descriptor).self
          /\ added' = <<[before     |-> my_scripts,
                         descriptor |-> descriptor,
                         ret        |-> add(my_scripts, descriptor).ret]>>
    /\ UNCHANGED <<overflow_checks, psbt, detail, report>>

\* psbt_detail(0, &psbt, &my_scripts, network)
PsbtDetail ==
    /\ report = <<>>
    /\ detail' = <<[my_scripts |-> my_scripts,
                    ret        |-> psbt_detail(0, psbt, my_scripts, Network)]>>
    /\ UNCHANGED <<overflow_checks, my_scripts, added, psbt, report>>

\* the details command: psbt_details over a batch that holds psbt, alone,
\* after another PSBT or twice, with an index of its own
PsbtDetails ==
    /\ report = <<>>
    /\ detail = <<>>
    /\ my_scripts = MyScriptsNew(Horizon)
    /\ \E pre \in BatchPrefixes \cup {<<psbt>>}, descriptors \in DescriptorLists :
          report' = <<[psbts       |-> pre \o <<psbt>>,
                       descriptors |-> descriptors,
                       ret         |-> psbt_details(pre \o <<psbt>>, descriptors,
                                                    Network)]>>
    /\ UNCHANGED <<overflow_checks, my_scripts, added, psbt, detail>>

\* ---- the aggregator's inputs -------------------------------------------

\* the most details merged into one report
MaxMerges == 3

\* an index holding the receive branch, and one holding both branches
SampleIndexes ==
    { add(MyScriptsNew(Horizon), "tr(K/0/*)").self,
      add(add(MyScriptsNew(Horizon), "tr(K/0/*)").self, "tr(K/1/*)").self }

\* a PSBT that pays more than i64::MAX satoshi to the first script of the
\* receive branch
LargePsbt ==
    Psbt(<<PsbtInput(5, <<TxOut(I64Limit + 1, <<7, 0>>)>>, {})>>,
         <<TxOut(I64Limit, <<0, 0>>)>>)

\* the details psbt_detail gives for the sample PSBTs and the large one
SampleDetails ==
    { r.value : r \in { q \in { psbt_detail(i, p, ms, Network) :
                                   i \in 0..1, p \in SamplePsbts \cup {LargePsbt},
                                   ms \in SampleIndexes } :
                        q.kind = "Ok" } }

VARIABLES
    group,          \* the GroupDetail under construction
    merge_panicked  \* whether a merge overflowed an amount and panicked

groupVars == <<group, merge_panicked>>

GroupIdle ==
    /\ group = GroupDefault
    /\ merge_panicked = FALSE

\* group.merge(detail)
Merge ==
    /\ ~merge_panicked
    /\ Len(group.details) < MaxMerges
    /\ \E d \in SampleDetails :
          LET m == merge(group, d)
          IN  IF m.kind = "Panic"
              THEN merge_panicked' = TRUE /\ UNCHANGED group
              ELSE group' = m.self /\ UNCHANGED merge_panicked

\* ------------------------------------------------------------------------
\* The import command: src/commands/import.rs over the node's wallets
\* ------------------------------------------------------------------------

\* the most import commands run against one node
MaxImports == 2

\* the descriptors import is handed: public and private two-branch
\* descriptors, one of each with a second key, a single-branch one, and one
\* whose marker is cut short
ImportDescs ==
    { <<"K", "/">> \o MULTIPATH \o <<"/", "*">>,
      <<"k", "/">> \o MULTIPATH \o <<"/", "*">>,
      <<"K", "/">> \o MULTIPATH \o <<",", "k", "/", "0">>,
      <<"K", "/", "0", "/", "*">>,
      <<"k", "/", "<", "0", ";", "/", "*">> }

WalletNames == {"1", "2"}

\* the remote calls of import, in the order it makes them: client() (line
\* 43), getdescriptorinfo for internal and external (46, 47), createwallet
\* and Client::new of create_blank_wallet (49), walletpassphrase (56),
\* importdescriptors for external and internal (59, 60)
RpcCalls == <<"client", "getdescriptorinfo", "getdescriptorinfo", "createwallet",
              "Client::new", "walletpassphrase", "importdescriptors",
              "importdescriptors">>

\* client.add_checksum(desc): the descriptor, '#', the node's checksum
add_checksum(d) == d \o <<"#">> \o <<"c", "s">>

\* the wallet createwallet(wallet_name, disable_private_keys, blank = true,
\* passphrase) makes
BlankWallet(wallet_name, disable_private_keys, passphrase) ==
    [name |-> wallet_name, disable_private_keys |-> disable_private_keys,
     passphrase |-> passphrase, descriptors |-> {}]

\* importdescriptors on the wallet named wallet_name
ImportDescriptor(node, wallet_name, descriptor, internal) ==
    { IF w.name = wallet_name
      THEN [w EXCEPT !.descriptors = @ \cup {<<descriptor, internal>>}]
      ELSE w : w \in node }

\* import, lines 46-66: from the exploded pair on.  fail_at is the remote
\* call that fails (0: none), r1 and r2 the success flags importdescriptors
\* answers with.
ImportExploded(node, e, descr, wallet_name, with_keys, fail_at, r1, r2) ==
    LET internal == add_checksum(e.internal)
        external == add_checksum(e.external)
        rpc_err  == [kind |-> "Err", err |-> "CoreRpc"]
        created  == node \cup {BlankWallet(wallet_name, ~with_keys,
                                           IF with_keys THEN <<descr>> ELSE <<>>)}
        first    == IF r1 THEN ImportDescriptor(created, wallet_name, external, FALSE)
                    ELSE created
        second   == IF r2 THEN ImportDescriptor(first, wallet_name, internal, TRUE)
                    ELSE first
    IN  IF fail_at \in {2, 3} THEN [node |-> node, ret |-> rpc_err]
        ELSE IF fail_at = 4 \/ \E w \in node : w.name = wallet_name
        THEN [node |-> node, ret |-> rpc_err]
        ELSE IF fail_at = 5 THEN [node |-> created, ret |-> rpc_err]
        ELSE IF with_keys /\ fail_at = 6
        THEN [node |-> created, ret |-> [kind |-> "Panic"]]
        ELSE IF fail_at = 7 THEN [node |-> created, ret |-> rpc_err]
        ELSE IF fail_at = 8 THEN [node |-> first, ret |-> rpc_err]
        ELSE IF ~r1 \/ ~r2
        THEN [node |-> second, ret |-> [kind |-> "Err", err |-> "CannotImport"]]
        ELSE [node |-> second, ret |-> [kind |-> "Ok", value |-> "ok"]]

\* an import that takes the two branches without checking the descriptor
importUnchecked(node, descr, wallet_name, with_keys, fail_at, r1, r2) ==
    IF fail_at = 1 THEN [node |-> node, ret |-> [kind |-> "Err", err |-> "Any"]]
    ELSE ImportExploded(node,
                        [internal |-> Substitute(descr, "1"),
                         external |-> Substitute(descr, "0")],
                        descr, wallet_name, with_keys, fail_at, r1, r2)

\* import(core_connect, desc, wallet_name, with_private_keys): the node's
\* wallets afterwards and the return value
import(node, descr, wallet_name, with_keys, fail_at, r1, r2) ==
    IF fail_at = 1 THEN [node |-> node, ret |-> [kind |-> "Err", err |-> "Any"]]
    ELSE LET e == explode_descriptor(descr, with_keys)
         IN  IF e.kind = "Err" THEN [node |-> node, ret |-> e]
             ELSE ImportExploded(node, e, descr, wallet_name, with_keys,
                                 fail_at, r1, r2)

VARIABLES
    node,      \* the wallets of the bitcoin core node
    imports,   \* the import commands run so far
    imported   \* the last import: its arguments, the node's wallets before
               \* it and its return value; <<>> before the first

importVars == <<node, imports, imported>>

ImportIdle ==
    /\ node = {}
    /\ imports = 0
    /\ imported = <<>>

\* the import command
Import ==
    /\ imports < MaxImports
    /\ \E d \in ImportDescs, wallet_name \in WalletNames, flag \in BOOLEAN,
          fail_at \in 0..Len(RpcCalls), r1 \in BOOLEAN, r2 \in BOOLEAN :
          LET r == import(node, d, wallet_name, flag, fail_at, r1, r2)
          IN  /\ node' = r.node
              /\ imported' = <<[desc |-> d, wallet_name |-> wallet_name,
                                with_private_keys |-> flag, before |-> node,
                                ret |-> r.ret]>>
    /\ imports' = imports + 1

\* ---- rendering ----------------------------------------------------------

VARIABLES
    rendered   \* the last rendering: the GroupDetail rendered and the text
               \* (or the panic) it gave; <<>> before the first

renderVars == <<rendered>>

RenderIdle == rendered = <<>>

\* group.to_string() on the report under construction
Render ==
    /\ ~merge_panicked
    /\ rendered' = <<[group |-> group, ret |-> GroupDetailDisplay(group)]>>
    /\ UNCHANGED groupVars

\* the details command prints the report psbt_details returned
RenderReport ==
    /\ report # <<>>
    /\ report[1].ret.kind = "Ok"
    /\ rendered = <<>>
    /\ rendered' = <<[group |-> report[1].ret.value,
                      ret   |-> GroupDetailDisplay(report[1].ret.value)]>>
    /\ UNCHANGED detailVars

\* ------------------------------------------------------------------------
\* A batch classified in any order: psbt_detail per PSBT against one index,
\* the details merged in input order (src/commands/details.rs, lines 49-52)
\* ------------------------------------------------------------------------

\* the most PSBTs of a batch
MaxBatch == 3

\* the indexes a batch is classified against
BatchIndexes == {MyScriptsNew(Horizon)} \cup SampleIndexes

\* an index for the detail taken from the number of PSBTs classified before
DetailIndexByArrival(k, before) == before

\* the index psbt_detail is handed for the k-th PSBT of the batch (k from
\* 1): enumerate()'s, whatever was classified before
DetailIndex(k, before) == k - 1

\* the loop of psbt_details over results already at hand: the first result
\* that is not a detail, or the details merged in input order
RECURSIVE MergeInOrder(_, _, _)
MergeInOrder(acc, results, k) ==
    IF k > Len(results) THEN [kind |-> "Ok", value |-> acc]
    ELSE IF results[k][1].kind # "Ok" THEN results[k][1]
    ELSE LET m == merge(acc, results[k][1].value)
         IN  IF m.kind # "Ok" THEN m
             ELSE MergeInOrder(m.self, results, k + 1)

VARIABLES
    batch,        \* the PSBTs of the batch
    classified,   \* per PSBT of the batch: <<>>, or the result of psbt_detail
    parallel      \* <<>>, or the outcome once every PSBT is classified and
                  \* the details are merged

batchVars == <<batch, classified, parallel>>

BatchIdle ==
    /\ batch = <<>>
    /\ classified = <<>>
    /\ parallel = <<>>

BatchInit ==
    /\ batch \in SeqsOf(SamplePsbts, 1, MaxBatch)
    /\ classified = [k \in 1..Len(batch) |-> <<>>]
    /\ parallel = <<>>

\* psbt_detail on one PSBT of the batch not classified yet
ClassifyOne ==
    /\ \E k \in 1..Len(batch) :
          /\ classified[k] = <<>>
          /\ classified' =
                [classified EXCEPT
                    ![k] = <<psbt_detail(
                                DetailIndex(k, Cardinality({j \in 1..Len(batch) :
                                                               classified[j] # <<>>})),
                                batch[k], my_scripts, Network)>>]
    /\ UNCHANGED <<batch, parallel>>

\* every PSBT is classified: merge in input order
MergeClassified ==
    /\ parallel = <<>>
    /\ \A k \in 1..Len(batch) : classified[k] # <<>>
    /\ parallel' = <<MergeInOrder(GroupDefault, classified, 1)>>
    /\ UNCHANGED <<batch, classified>>

\* ------------------------------------------------------------------------
\* The per-descriptor aggregator: src/commands/balance.rs
\* A Balance is one PSBT seen from one descriptor; Balances adds them up,
\* keyed by txid and descriptor.
\* ------------------------------------------------------------------------

\* DescCache::new(descriptor, how_many), from index i on
RECURSIVE DescCacheLoop(_, _, _, _)
DescCacheLoop(descriptor, how_many, i, cache) ==
    IF i >= how_many
    THEN [kind |-> "Ok",
          value |-> [descriptor |-> to_string(descriptor), cache |-> cache]]
    ELSE LET derived == at_derivation_index(descriptor, i)
         IN  IF derived.kind = "Err" THEN derived
             ELSE DescCacheLoop(descriptor, how_many, i + 1,
                                cache \cup {script_pubkey(derived)})

DescCacheNew(descriptor, how_many) == DescCacheLoop(descriptor, how_many, 0, {})

\* DescCache::contains
DescCacheContains(self, script) == script \in self.cache

\* balance_single, lines 149-156: the loop over the inputs, left at the first
\* input the descriptor owns
RECURSIVE BalanceInputs(_, _, _, _)
BalanceInputs(p, dc, k, acc) ==
    IF k > Len(p.inputs) THEN [kind |-> "Ok", acc |-> acc]
    ELSE IF p.inputs[k].witness_utxo = <<>>
    THEN [kind |-> "Err", err |-> <<"Todo">>]
    ELSE LET tx_out == p.inputs[k].witness_utxo[1]
             sum    == acc.sum_inputs + tx_out.value
         IN  IF DescCacheContains(dc, tx_out.script_pubkey)
             THEN [kind |-> "Ok",
                   acc  |-> [sum_inputs |-> sum,
                             outgoing   |-> acc.outgoing + tx_out.value]]
             ELSE BalanceInputs(p, dc, k + 1,
                                [sum_inputs |-> sum, outgoing |-> acc.outgoing])

\* balance_single, lines 158-165: the loop over the outputs, left at the
\* first output the descriptor owns
RECURSIVE BalanceOutputs(_, _, _, _)
BalanceOutputs(tx, dc, k, acc) ==
    IF k > Len(tx.output) THEN acc
    ELSE LET tx_out == tx.output[k]
             sum    == acc.sum_outputs + tx_out.value
         IN  IF DescCacheContains(dc, tx_out.script_pubkey)
             THEN [sum_outputs |-> sum, incoming |-> acc.incoming + tx_out.value]
             ELSE BalanceOutputs(tx, dc, k + 1,
                                 [sum_outputs |-> sum, incoming |-> acc.incoming])

\* balance_single(psbt, desc)
balance_single(p, dc) ==
    LET tx  == extract_tx(p)
        ins == BalanceInputs(p, dc, 1, [sum_inputs |-> 0, outgoing |-> 0])
    IN  IF ins.kind # "Ok" THEN ins
        ELSE LET outs == BalanceOutputs(tx, dc, 1, [sum_outputs |-> 0, incoming |-> 0])
                 fee  == U64Sub(ins.acc.sum_inputs, outs.sum_outputs)
             IN  IF fee.kind # "Ok" THEN fee
                 ELSE [kind |-> "Ok",
                       value |-> [txid       |-> txid(tx),
                                  descriptor |-> dc.descriptor,
                                  fee        |-> fee.value,
                                  outgoing   |-> ins.acc.outgoing,
                                  incoming   |-> outs.incoming]]

\* Balances::default()
BalancesDefault ==
    [txids_descriptors |-> [t \in {} |-> <<>>], outgoing |-> 0, incoming |-> 0, fee |-> 0]

\* a merge that adds the fee of every record
BalancesMergeFeePerRecord(self, other) ==
    LET seen == other.txid \in DOMAIN self.txids_descriptors
    IN  IF seen /\ \E j \in 1..Len(self.txids_descriptors[other.txid]) :
                      self.txids_descriptors[other.txid][j] = other.descriptor
        THEN [kind |-> "Err", err |-> <<"MergeSame">>, self |-> self]
        ELSE [kind |-> "Ok",
              self |-> [txids_descriptors |->
                            [t \in DOMAIN self.txids_descriptors \cup {other.txid} |->
                                IF t # other.txid THEN self.txids_descriptors[t]
                                ELSE IF seen
                                THEN Append(self.txids_descriptors[t], other.descriptor)
                                ELSE <<other.descriptor>>],
                        outgoing |-> self.outgoing + other.outgoing,
                        incoming |-> self.incoming + other.incoming,
                        fee      |-> self.fee + other.fee]]

\* Balances::merge: self afterwards and the outcome.  Amount += Amount
\* panics past u64::MAX.
BalancesMerge(self, other) ==
    LET seen == other.txid \in DOMAIN self.txids_descriptors
        o    == AmountAdd(self.outgoing, other.outgoing)
        n    == AmountAdd(self.incoming, other.incoming)
        f    == IF seen THEN [kind |-> "Ok", value |-> self.fee]
                ELSE AmountAdd(self.fee, other.fee)
    IN  IF seen /\ \E j \in 1..Len(self.txids_descriptors[other.txid]) :
                      self.txids_descriptors[other.txid][j] = other.descriptor
        THEN [kind |-> "Err", err |-> <<"MergeSame">>, self |-> self]
        ELSE IF o.kind = "Panic" \/ n.kind = "Panic" \/ f.kind = "Panic"
        THEN [kind |-> "Panic", self |-> self]
        ELSE [kind |-> "Ok",
              self |-> [txids_descriptors |->
                            [t \in DOMAIN self.txids_descriptors \cup {other.txid} |->
                                IF t # other.txid THEN self.txids_descriptors[t]
                                ELSE IF seen
                                THEN Append(self.txids_descriptors[t], other.descriptor)
                                ELSE <<other.descriptor>>],
                        outgoing |-> o.value,
                        incoming |-> n.value,
                        fee      |-> f.value]]

\* the inner loop of balances, lines 129-132, from the k-th PSBT on
RECURSIVE BalancesPsets(_, _, _, _)
BalancesPsets(self, psets, dc, k) ==
    IF k > Len(psets) THEN [kind |-> "Ok", value |-> self]
    ELSE LET balance == balance_single(psets[k], dc)
         IN  IF balance.kind # "Ok" THEN balance
             ELSE LET m == BalancesMerge(self, balance.value)
                  IN  IF m.kind # "Ok" THEN [x \in DOMAIN m \ {"self"} |-> m[x]]
                      ELSE BalancesPsets(m.self, psets, dc, k + 1)

\* the outer loop of balances, lines 127-133, from the k-th descriptor on
RECURSIVE BalancesDescriptors(_, _, _, _, _)
BalancesDescriptors(self, psets, descriptors, how_many, k) ==
    IF k > Len(descriptors) THEN [kind |-> "Ok", value |-> self]
    ELSE LET desc_cache == DescCacheNew(descriptors[k], how_many)
         IN  IF desc_cache.kind # "Ok" THEN desc_cache
             ELSE LET r == BalancesPsets(self, psets, desc_cache.value, 1)
                  IN  IF r.kind # "Ok" THEN r
                      ELSE BalancesDescriptors(r.value, psets, descriptors,
                                               how_many, k + 1)

\* balances(psets, descriptors), each cache holding how_many scripts
balances(psets, descriptors, how_many) ==
    BalancesDescriptors(BalancesDefault, psets, descriptors, how_many, 1)

\* the most records merged into one Balances
MaxRecords == 3

\* the PSBTs the aggregator is handed: the four of the codec, and one that
\* spends two scripts of the receive branch and pays the change branch
\* before an external script
BalancePsbts ==
    SamplePsbts \cup
    { Psbt(<<PsbtInput(6, <<TxOut(4, <<0, 0>>)>>, {}),
             PsbtInput(7, <<TxOut(3, <<0, 1>>)>>, {})>>,
           <<TxOut(1, <<7, 0>>), TxOut(2, <<1, 0>>), TxOut(1, <<7, 1>>)>>) }

\* the caches of the two single-path descriptors
DescCaches ==
    { DescCacheNew(d, Horizon).value : d \in {"tr(K/0/*)", "tr(K/1/*)"} }

VARIABLES
    acc_balances,   \* the Balances under construction
    merged,         \* the records merged into it, in merge order
    balance,         \* <<>>, or the last balance_single call: its PSBT, its
                    \* cache and its outcome
    merge_ret       \* <<>>, or the last merge: the Balances before, the
                    \* record and the outcome

balanceVars == <<acc_balances, merged, balance, merge_ret>>

BalanceIdle ==
    /\ acc_balances = BalancesDefault
    /\ merged = <<>>
    /\ balance = <<>>
    /\ merge_ret = <<>>

\* let balance = balance_single(&pset, &desc_cache)
BalanceSingle ==
    /\ balance = <<>>
    /\ Len(merged) < MaxRecords
    /\ ~(merge_ret # <<>> /\ merge_ret[1].ret.kind = "Panic")
    /\ \E p \in BalancePsbts, dc \in DescCaches :
          balance' = <<[psbt |-> p, desc |-> dc, ret |-> balance_single(p, dc)]>>
    /\ UNCHANGED <<acc_balances, merged, merge_ret>>

\* balances.merge(balance), or a failed balance_single dropped
BalancesMergeStep ==
    /\ balance # <<>>
    /\ IF balance[1].ret.kind # "Ok"
       THEN UNCHANGED <<acc_balances, merged, merge_ret>>
       ELSE LET m == BalancesMerge(acc_balances, balance[1].ret.value)
            IN  /\ acc_balances' = m.self
                /\ merged' = IF m.kind = "Ok" THEN Append(merged, balance[1].ret.value)
                             ELSE merged
                /\ merge_ret' = <<[before |-> acc_balances,
                                   seen   |-> merged,
                                   other  |-> balance[1].ret.value,
                                   ret    |-> [x \in DOMAIN m \ {"self"} |-> m[x]]]>>
    /\ balance' = <<>>

\* ------------------------------------------------------------------------
\* The sign command: src/commands/sign.rs, with the wallet RPCs of
\* src/client_ext.rs.  The signer wallet is encrypted and starts locked.
\* ------------------------------------------------------------------------

\* the key of the signer wallet, as the tag of its partial signature
SignerKey == 9

\* walletprocesspsbt: the PSBT with the wallet's signature on every input
\* that carries its witness UTXO
WalletProcessPsbt(p) ==
    [p EXCEPT !.inputs =
        [k \in 1..Len(p.inputs) |->
            IF p.inputs[k].witness_utxo = <<>> THEN p.inputs[k]
            ELSE [p.inputs[k] EXCEPT !.partial_sigs = @ \cup {SignerKey}]]]

VARIABLES
    wallet_locked,  \* whether the node's wallet is locked
    sign_pc,        \* where sign is: "client", "unlock", "loop", "lock", "done"
    to_sign,        \* the PSBTs sign is handed
    results,        \* the PSBTs signed so far
    calls,          \* the wallet RPCs sign has issued, in order
    sign_ret        \* <<>>, or how sign ended

signVars == <<wallet_locked, sign_pc, to_sign, results, calls, sign_ret>>

SignIdle ==
    /\ wallet_locked = TRUE
    /\ sign_pc = "idle"
    /\ to_sign = <<>>
    /\ results = <<>>
    /\ calls = <<>>
    /\ sign_ret = <<>>

SignInit ==
    /\ wallet_locked = TRUE
    /\ sign_pc = "client"
    /\ to_sign \in SeqsOf(SamplePsbts, 0, MaxPsbts)
    /\ results = <<>>
    /\ calls = <<>>
    /\ sign_ret = <<>>

\* line 26: core_connect.client_with_wallet(wallet_name)?
SignClient ==
    /\ sign_pc = "client"
    /\ \E ok \in BOOLEAN :
          IF ok THEN /\ sign_pc' = "unlock"
                     /\ UNCHANGED sign_ret
          ELSE /\ sign_pc' = "done"
               /\ sign_ret' = <<[kind |-> "Err", err |-> <<"CoreRpc">>]>>
    /\ UNCHANGED <<wallet_locked, to_sign, results, calls>>

\* line 27: client.wallet_passphrase(descriptor): walletpassphrase with a
\* timeout of 10 seconds; the RPC's result is unwrapped
SignWalletPassphrase ==
    /\ sign_pc = "unlock"
    /\ calls' = Append(calls, "walletpassphrase")
    /\ \E ok \in BOOLEAN :
          IF ok THEN /\ wallet_locked' = FALSE
                     /\ sign_pc' = "loop"
                     /\ UNCHANGED sign_ret
          ELSE /\ sign_pc' = "done"
               /\ sign_ret' = <<[kind |-> "Panic"]>>
               /\ UNCHANGED wallet_locked
    /\ UNCHANGED <<to_sign, results>>

\* lines 30-38: one turn of the loop.  wallet_process_psbt fails on a locked
\* wallet and may fail on an unlocked one (the node, the connection); its
\* error and the parse error of its answer leave sign through `?`
SignProcessPsbt ==
    /\ sign_pc = "loop"
    /\ Len(results) < Len(to_sign)
    /\ calls' = Append(calls, "walletprocesspsbt")
    /\ \E ok \in IF wallet_locked THEN {FALSE} ELSE BOOLEAN :
          IF ok THEN /\ results' = Append(results,
                                          WalletProcessPsbt(to_sign[Len(results) + 1]))
                     /\ UNCHANGED <<sign_pc, sign_ret>>
          ELSE /\ sign_pc' = "done"
               /\ sign_ret' = <<[kind |-> "Err", err |-> <<"CoreRpc">>]>>
               /\ UNCHANGED results
    /\ UNCHANGED <<wallet_locked, to_sign>>

\* lines 39-40: client.wallet_lock(), its result unwrapped, and Ok(results)
SignWalletLock ==
    /\ sign_pc = "loop"
    /\ Len(results) = Len(to_sign)
    /\ calls' = Append(calls, "walletlock")
    /\ sign_pc' = "done"
    /\ \E ok \in BOOLEAN :
          IF ok THEN /\ wallet_locked' = TRUE
                     /\ sign_ret' = <<[kind |-> "Ok", value |-> results]>>
          ELSE /\ sign_ret' = <<[kind |-> "Panic"]>>
               /\ UNCHANGED wallet_locked
    /\ UNCHANGED <<to_sign, results>>

\* the node locks the wallet by itself when the 10 seconds are over
WalletTimeout ==
    /\ ~wallet_locked
    /\ wallet_locked' = TRUE
    /\ UNCHANGED <<sign_pc, to_sign, results, calls, sign_ret>>

\* ------------------------------------------------------------------------
\* The locktime command: src/commands/locktime.rs.  For every UTXO of the
\* wallet one PSBT to an address of the heir, the address labelled with the
\* outpoint in the wallet.
\* ------------------------------------------------------------------------

\* the addresses derived for the heir (1_000 in the source)
HeirAddresses == 3

\* the most UTXOs the wallet lists
MaxUnspent == 2

OutPoint(id, vout) == [txid |-> id, vout |-> vout]

\* the outpoints labels may name: those the wallet may list and a spent one
OutPoints == { OutPoint(id, 0) : id \in 1..(MaxUnspent + 1) }

\* outpoint.to_string(): "<txid>:<vout>"
OutPointToString(outpoint) == <<outpoint.txid, ":", outpoint.vout>>

\* OutPoint::from_str(label)
OutPointFromStr(label) ==
    IF Len(label) = 3 /\ label[2] = ":"
    THEN [kind |-> "Ok", value |-> OutPoint(label[1], label[3])]
    ELSE [kind |-> "Err"]

\* what info.labels.first() may hold: nothing, a text that is no outpoint,
\* or an outpoint
Labels == {<<>>, <<"heir">>} \cup { OutPointToString(o) : o \in OutPoints }

\* the sequences of different elements of S, of length 0 to n
DistinctSeqsOf(S, n) ==
    { s \in SeqsOf(S, 0, n) : \A i, j \in 1..Len(s) : i # j => s[i] # s[j] }

\* a test that takes every address
MappedNever(label, outpoints) == FALSE

\* lines 95-101: whether the address is mapped to a still unspent outpoint
MappedToUnspent(label, outpoints) ==
    /\ label # <<>>
    /\ OutPointFromStr(label).kind = "Ok"
    /\ OutPointFromStr(label).value \in outpoints

VARIABLES
    labels,           \* the label the wallet holds for each heir address
                      \* (the k-th entry for derivation index k - 1)
    list_unspent,     \* the wallet's UTXOs, as listed at the start
    heir_addresses,   \* the iterator: how many addresses were taken from it
    unspent_i,        \* how many UTXOs have their PSBT
    output_address,   \* <<>>, or the derivation index chosen for the current
                      \* UTXO and the label read for it
    locktime_result,  \* per PSBT made: its outpoint, the derivation index of
                      \* the address it pays to and the label read for it
    locktime_pc,      \* "pick", "create" or "done"
    locktime_ret      \* <<>>, or how locktime ended

locktimeVars == <<labels, list_unspent, heir_addresses, unspent_i, output_address,
                  locktime_result, locktime_pc, locktime_ret>>

LocktimeIdle ==
    /\ labels = <<>>
    /\ list_unspent = <<>>
    /\ heir_addresses = 0
    /\ unspent_i = 0
    /\ output_address = <<>>
    /\ locktime_result = <<>>
    /\ locktime_pc = "idle"
    /\ locktime_ret = <<>>

\* lines 59-85: the addresses are derived, the UTXOs are listed, the
\* iterator stands before the first address
LocktimeInit ==
    /\ labels \in [1..HeirAddresses -> Labels]
    /\ list_unspent \in DistinctSeqsOf({ o \in OutPoints : o.txid <= MaxUnspent },
                                       MaxUnspent)
    /\ heir_addresses = 0
    /\ unspent_i = 0
    /\ output_address = <<>>
    /\ locktime_result = <<>>
    /\ locktime_pc = "pick"
    /\ locktime_ret = <<>>

list_unspent_outpoints == { list_unspent[k] : k \in 1..Len(list_unspent) }

\* lines 87-103: one turn of the inner loop: the next address of the
\* iterator, NotEnoughAddresses when there is none; the address is passed
\* over when its label names a listed outpoint
LocktimeNextAddress ==
    /\ locktime_pc = "pick"
    /\ unspent_i < Len(list_unspent)
    /\ IF heir_addresses >= HeirAddresses
       THEN /\ locktime_ret' = <<[kind |-> "Err", err |-> <<"NotEnoughAddresses">>]>>
            /\ locktime_pc' = "done"
            /\ UNCHANGED <<heir_addresses, output_address>>
       ELSE /\ heir_addresses' = heir_addresses + 1
            /\ \E ok \in BOOLEAN :
                  IF ~ok
                  THEN /\ locktime_ret' = <<[kind |-> "Err", err |-> <<"CoreRpc">>]>>
                       /\ locktime_pc' = "done"
                       /\ UNCHANGED output_address
                  ELSE IF MappedToUnspent(labels[heir_addresses + 1],
                                          list_unspent_outpoints)
                  THEN UNCHANGED <<output_address, locktime_pc, locktime_ret>>
                  ELSE /\ output_address' = <<[index |-> heir_addresses,
                                               label |-> labels[heir_addresses + 1]]>>
                       /\ locktime_pc' = "create"
                       /\ UNCHANGED locktime_ret
    /\ UNCHANGED <<labels, list_unspent, unspent_i, locktime_result>>

\* lines 105-137: the PSBT of the current UTXO to the chosen address, and
\* the label.  The node may be in initial block download, walletcreatefundedpsbt
\* is unwrapped, set_label may fail.
LocktimeCreatePsbt ==
    /\ locktime_pc = "create"
    /\ \E outcome \in {"Ok", "StillIBD", "CoreRpc", "Panic"} :
          IF outcome = "Ok"
          THEN /\ labels' = [labels EXCEPT ![output_address[1].index + 1] =
                                OutPointToString(list_unspent[unspent_i + 1])]
               /\ locktime_result' =
                     Append(locktime_result,
                            [outpoint |-> list_unspent[unspent_i + 1],
                             address  |-> output_address[1].index,
                             label    |-> output_address[1].label])
               /\ unspent_i' = unspent_i + 1
               /\ output_address' = <<>>
               /\ locktime_pc' = "pick"
               /\ UNCHANGED locktime_ret
          ELSE /\ locktime_ret' = IF outcome = "Panic" THEN <<[kind |-> "Panic"]>>
                                  ELSE <<[kind |-> "Err", err |-> <<outcome>>]>>
               /\ locktime_pc' = "done"
               /\ UNCHANGED <<labels, locktime_result, unspent_i, output_address>>
    /\ UNCHANGED <<list_unspent, heir_addresses>>

\* line 140: Ok(result)
LocktimeReturn ==
    /\ locktime_pc = "pick"
    /\ unspent_i = Len(list_unspent)
    /\ locktime_ret' = <<[kind |-> "Ok", value |-> locktime_result]>>
    /\ locktime_pc' = "done"
    /\ UNCHANGED <<labels, list_unspent, heir_addresses, unspent_i, output_address,
                   locktime_result>>

\* ------------------------------------------------------------------------
\* The specifications
\* ------------------------------------------------------------------------

vars == <<codecVars, explodeVars, detailVars, groupVars, importVars, renderVars, batchVars, balanceVars, signVars, locktimeVars>>

\* classification: an index grown by add, one PSBT classified against it
Init ==
    /\ DetailInit
    /\ psbts = <<>> /\ CodecIdle
    /\ ExplodeInit
    /\ GroupIdle
    /\ ImportIdle
    /\ RenderIdle
    /\ BatchIdle
    /\ BalanceIdle
    /\ SignIdle
    /\ LocktimeIdle

Next ==
    \/ Add /\ UNCHANGED <<codecVars, explodeVars, groupVars, importVars, renderVars, batchVars, balanceVars, signVars, locktimeVars>>
    \/ PsbtDetail /\ UNCHANGED <<codecVars, explodeVars, groupVars, importVars, renderVars, batchVars, balanceVars, signVars, locktimeVars>>
    \/ PsbtDetails /\ UNCHANGED <<codecVars, explodeVars, groupVars, importVars, renderVars, batchVars, balanceVars, signVars, locktimeVars>>
    \/ RenderReport /\ UNCHANGED <<codecVars, explodeVars, groupVars, importVars, batchVars, balanceVars, signVars, locktimeVars>>

Spec == Init /\ [][Next]_vars

\* the container codec: serialize, transport, deserialize
InitCodec ==
    /\ CodecInit
    /\ ExplodeInit
    /\ overflow_checks = FALSE /\ DetailIdle
    /\ GroupIdle
    /\ ImportIdle
    /\ RenderIdle
    /\ BatchIdle
    /\ BalanceIdle
    /\ SignIdle
    /\ LocktimeIdle

NextCodec ==
    \/ Serialize /\ UNCHANGED <<explodeVars, detailVars, groupVars, importVars, renderVars, batchVars, balanceVars, signVars, locktimeVars>>
    \/ Corrupt /\ UNCHANGED <<explodeVars, detailVars, groupVars, importVars, renderVars, batchVars, balanceVars, signVars, locktimeVars>>
    \/ DeserializeHeader /\ UNCHANGED <<explodeVars, detailVars, groupVars, importVars, renderVars, batchVars, balanceVars, signVars, locktimeVars>>
    \/ DeserializeLoop /\ UNCHANGED <<explodeVars, detailVars, groupVars, importVars, renderVars, batchVars, balanceVars, signVars, locktimeVars>>
    \/ DeserializeReturn /\ UNCHANGED <<explodeVars, detailVars, groupVars, importVars, renderVars, batchVars, balanceVars, signVars, locktimeVars>>

SpecCodec == InitCodec /\ [][NextCodec]_vars

\* descriptor explosion
InitExplode ==
    /\ ExplodeInit
    /\ psbts = <<>> /\ CodecIdle
    /\ overflow_checks = FALSE /\ DetailIdle
    /\ GroupIdle
    /\ ImportIdle
    /\ RenderIdle
    /\ BatchIdle
    /\ BalanceIdle
    /\ SignIdle
    /\ LocktimeIdle

NextExplode ==
    \/ PushPiece /\ UNCHANGED <<codecVars, detailVars, groupVars, importVars, renderVars, batchVars, balanceVars, signVars, locktimeVars>>
    \/ Explode /\ UNCHANGED <<codecVars, detailVars, groupVars, importVars, renderVars, batchVars, balanceVars, signVars, locktimeVars>>

SpecExplode == InitExplode /\ [][NextExplode]_vars

\* aggregation: details merged into a report
InitGroup ==
    /\ GroupIdle
    /\ overflow_checks \in BOOLEAN /\ DetailIdle
    /\ psbts = <<>> /\ CodecIdle
    /\ ExplodeInit
    /\ ImportIdle
    /\ RenderIdle
    /\ BatchIdle
    /\ BalanceIdle
    /\ SignIdle
    /\ LocktimeIdle

NextGroup ==
    \/ Merge /\ UNCHANGED <<codecVars, explodeVars, detailVars, importVars, renderVars, batchVars, balanceVars, signVars, locktimeVars>>
    \/ Render /\ UNCHANGED <<codecVars, explodeVars, detailVars, importVars, batchVars, balanceVars, signVars, locktimeVars>>

SpecGroup == InitGroup /\ [][NextGroup]_vars

\* imports against one node
InitImport ==
    /\ ImportIdle
    /\ psbts = <<>> /\ CodecIdle
    /\ ExplodeInit
    /\ overflow_checks = FALSE /\ DetailIdle
    /\ GroupIdle
    /\ RenderIdle
    /\ BatchIdle
    /\ BalanceIdle
    /\ SignIdle
    /\ LocktimeIdle

NextImport ==
    \/ Import /\ UNCHANGED <<codecVars, explodeVars, detailVars, groupVars, renderVars, batchVars, balanceVars, signVars, locktimeVars>>

SpecImport == InitImport /\ [][NextImport]_vars

\* a batch classified in any order against one index
InitBatch ==
    /\ BatchInit
    /\ overflow_checks \in BOOLEAN
    /\ my_scripts \in BatchIndexes
    /\ added = <<>>
    /\ psbt = Psbt(<<>>, <<>>)
    /\ detail = <<>>
    /\ report = <<>>
    /\ psbts = <<>> /\ CodecIdle
    /\ ExplodeInit
    /\ GroupIdle
    /\ ImportIdle
    /\ RenderIdle
    /\ BalanceIdle
    /\ SignIdle
    /\ LocktimeIdle

NextBatch ==
    \/ ClassifyOne /\ UNCHANGED <<codecVars, explodeVars, detailVars, groupVars, importVars, renderVars, balanceVars, signVars, locktimeVars>>
    \/ MergeClassified /\ UNCHANGED <<codecVars, explodeVars, detailVars, groupVars, importVars, renderVars, balanceVars, signVars, locktimeVars>>

SpecBatch == InitBatch /\ [][NextBatch]_vars

\* the per-descriptor aggregator: records computed and merged one by one
InitBalance ==
    /\ BalanceIdle
    /\ overflow_checks \in BOOLEAN
    /\ DetailIdle
    /\ psbts = <<>> /\ CodecIdle
    /\ ExplodeInit
    /\ GroupIdle
    /\ ImportIdle
    /\ RenderIdle
    /\ BatchIdle
    /\ SignIdle
    /\ LocktimeIdle

NextBalance ==
    \/ BalanceSingle /\ UNCHANGED <<codecVars, explodeVars, detailVars, groupVars, importVars, renderVars, batchVars, signVars, locktimeVars>>
    \/ BalancesMergeStep /\ UNCHANGED <<codecVars, explodeVars, detailVars, groupVars, importVars, renderVars, batchVars, signVars, locktimeVars>>

SpecBalance == InitBalance /\ [][NextBalance]_vars

\* the sign command against an encrypted wallet
InitSign ==
    /\ SignInit
    /\ overflow_checks = FALSE /\ DetailIdle
    /\ psbts = <<>> /\ CodecIdle
    /\ ExplodeInit
    /\ GroupIdle
    /\ ImportIdle
    /\ RenderIdle
    /\ BatchIdle
    /\ BalanceIdle
    /\ LocktimeIdle

NextSign ==
    \/ SignClient /\ UNCHANGED <<codecVars, explodeVars, detailVars, groupVars, importVars, renderVars, batchVars, balanceVars, locktimeVars>>
    \/ SignWalletPassphrase /\ UNCHANGED <<codecVars, explodeVars, detailVars, groupVars, importVars, renderVars, batchVars, balanceVars, locktimeVars>>
    \/ SignProcessPsbt /\ UNCHANGED <<codecVars, explodeVars, detailVars, groupVars, importVars, renderVars, batchVars, balanceVars, locktimeVars>>
    \/ SignWalletLock /\ UNCHANGED <<codecVars, explodeVars, detailVars, groupVars, importVars, renderVars, batchVars, balanceVars, locktimeVars>>
    \/ WalletTimeout /\ UNCHANGED <<codecVars, explodeVars, detailVars, groupVars, importVars, renderVars, batchVars, balanceVars, locktimeVars>>

SpecSign == InitSign /\ [][NextSign]_vars

\* the locktime command against a wallet with labelled addresses
InitLocktime ==
    /\ LocktimeInit
    /\ overflow_checks = FALSE /\ DetailIdle
    /\ psbts = <<>> /\ CodecIdle
    /\ ExplodeInit
    /\ GroupIdle
    /\ ImportIdle
    /\ RenderIdle
    /\ BatchIdle
    /\ BalanceIdle
    /\ SignIdle

NextLocktime ==
    \/ LocktimeNextAddress /\ UNCHANGED <<codecVars, explodeVars, detailVars, groupVars, importVars, renderVars, batchVars, balanceVars, signVars>>
    \/ LocktimeCreatePsbt /\ UNCHANGED <<codecVars, explodeVars, detailVars, groupVars, importVars, renderVars, batchVars, balanceVars, signVars>>
    \/ LocktimeReturn /\ UNCHANGED <<codecVars, explodeVars, detailVars, groupVars, importVars, renderVars, batchVars, balanceVars, signVars>>

SpecLocktime == InitLocktime /\ [][NextLocktime]_vars

\* ------------------------------------------------------------------------
\* Properties
\* ------------------------------------------------------------------------

Ok(v) == [kind |-> "Ok", value |-> v]

Range(f) == {f[k] : k \in DOMAIN f}

\* the bytes of PSBTs 1..k-1 of ps, serialized one after the other
PsbtBytesBefore(ps, k) == SeqSum([j \in 1..(k - 1) |-> Len(PsbtSerialize(ps[j]))])

\* C1: deserialize(serialize(psbts)) succeeds and returns psbts (same length,
\* same elements, same order) for every non-empty sequence of PSBTs,
\* repeated PSBTs included.
C1_RoundTrip ==
    (cpc = "done" /\ psbts # <<>> /\ bytes = serialize(psbts)) => ret = <<Ok(psbts)>>

\* C1 happens: a container of three PSBTs, the first two the same, decoded
C1_Witness ==
    /\ cpc = "done"
    /\ bytes = serialize(psbts)
    /\ Len(psbts) = 3
    /\ psbts[1] = psbts[2]
    /\ psbts[3] # psbts[1]
    /\ ret = <<Ok(psbts)>>

\* C2: serialize emits the 5 bytes "psbts", the byte 0xFF, the varint of the
\* number of PSBTs (one byte below 253), then each PSBT's canonical
\* serialization in input order with nothing before, between or after.
C2_Layout ==
    cpc = "serialized" =>
        /\ Len(bytes) = 7 + PsbtBytesBefore(psbts, Len(psbts) + 1)
        /\ SubSeq(bytes, 1, 5) = <<112, 115, 98, 116, 115>>
        /\ bytes[6] = 255
        /\ bytes[7] = Len(psbts)
        /\ \A k \in 1..Len(psbts) :
              SubSeq(bytes, 7 + PsbtBytesBefore(psbts, k) + 1,
                     7 + PsbtBytesBefore(psbts, k + 1)) = PsbtSerialize(psbts[k])

\* C2 happens: two different PSBTs serialized
C2_Witness ==
    /\ cpc = "serialized"
    /\ Len(psbts) = 2
    /\ psbts[1] # psbts[2]
    /\ Len(PsbtSerialize(psbts[1])) # Len(PsbtSerialize(psbts[2]))

\* the sum of the witness-UTXO values of all inputs of p (each has one)
SumWitnessValues(p) ==
    SeqSum([k \in 1..Len(p.inputs) |-> p.inputs[k].witness_utxo[1].value])

\* the sum of the values of all outputs of the extracted transaction
SumOutputValues(p) ==
    SeqSum([k \in 1..Len(p.outputs) |-> extract_tx(p).output[k].value])

\* C3: for every PSBT psbt_detail classifies successfully, the reported fee
\* is the sum of the witness-UTXO values of all inputs minus the sum of the
\* values of all outputs, exactly, as integers.
C3_FeeConservation ==
    (detail # <<>> /\ detail[1].ret.kind = "Ok") =>
        detail[1].ret.value.fee = SumWitnessValues(psbt) - SumOutputValues(psbt)

\* the inputs of p whose witness UTXO pays to a script of cache
OwnedInputs(p, cache) ==
    {k \in 1..Len(p.inputs) :
        /\ p.inputs[k].witness_utxo # <<>>
        /\ p.inputs[k].witness_utxo[1].script_pubkey \in cache}

OwnedOutputs(p, cache) ==
    {k \in 1..Len(p.outputs) : p.outputs[k].script_pubkey \in cache}

RECURSIVE SumOver(_, _)
SumOver(S, f) ==
    IF S = {} THEN 0
    ELSE LET k == CHOOSE x \in S : TRUE IN f[k] + SumOver(S \ {k}, f)

\* C4: psbt_detail scans every input and output: outgoing is the sum of the
\* values of all inputs whose script is in the index, incoming the sum of the
\* values of all outputs whose script is in the index, however many are
\* owned and wherever they are.
C4_AllScanned ==
    (detail # <<>> /\ detail[1].ret.kind = "Ok") =>
        LET cache == detail[1].my_scripts.cache
            d     == detail[1].ret.value
        IN  /\ d.outgoing =
                  SumOver(OwnedInputs(psbt, cache),
                          [k \in OwnedInputs(psbt, cache) |->
                              psbt.inputs[k].witness_utxo[1].value])
            /\ d.incoming =
                  SumOver(OwnedOutputs(psbt, cache),
                          [k \in 1..Len(psbt.outputs) |-> psbt.outputs[k].value])

\* C4 happens: a PSBT with two owned inputs and two owned outputs, the owned
\* ones not all of one script, classified
C4_Witness ==
    /\ detail # <<>>
    /\ detail[1].ret.kind = "Ok"
    /\ Cardinality(OwnedInputs(psbt, detail[1].my_scripts.cache)) = 2
    /\ Cardinality(OwnedOutputs(psbt, detail[1].my_scripts.cache)) = 2
    /\ psbt.inputs[1].witness_utxo # psbt.inputs[2].witness_utxo
    /\ psbt.outputs[1] # psbt.outputs[2]

\* the injective maps of 1..n onto itself
Orders(n) == {f \in [1..n -> 1..n] : \A a, b \in 1..n : f[a] = f[b] => a = b}

\* the report after merging ds, in order, into g
RECURSIVE MergeAll(_, _)
MergeAll(g, ds) ==
    IF ds = <<>> THEN Ok(g)
    ELSE LET m == merge(g, Head(ds))
         IN  IF m.kind = "Panic" THEN m ELSE MergeAll(m.self, Tail(ds))

\* C5: after any sequence of merges from the default report, the outgoing,
\* incoming and fee totals are the sums of those fields over the details
\* held, and merging the same details in any other order gives the same
\* totals.
C5_Totals ==
    /\ group.outgoing = SeqSum([k \in 1..Len(group.details) |-> group.details[k].outgoing])
    /\ group.incoming = SeqSum([k \in 1..Len(group.details) |-> group.details[k].incoming])
    /\ group.fee = SeqSum([k \in 1..Len(group.details) |-> group.details[k].fee])
    /\ \A f \in Orders(Len(group.details)) :
          LET g == MergeAll(GroupDefault,
                            [k \in 1..Len(group.details) |-> group.details[f[k]]])
          IN  /\ g.kind = "Ok"
              /\ g.value.outgoing = group.outgoing
              /\ g.value.incoming = group.incoming
              /\ g.value.fee = group.fee

\* C5 happens: three details of different amounts merged
C5_Witness ==
    /\ Len(group.details) = 3
    /\ group.details[1].fee # group.details[2].fee
    /\ group.details[1].outgoing # group.details[3].outgoing
    /\ group.details[2].incoming > 0
    /\ group.fee > 0

\* the descriptors whose string the index holds
AddedDescriptors == {d \in Descriptors : to_string(d) \in Range(my_scripts.descriptors)}

C6_Contained ==
    \A d \in AddedDescriptors, i \in 0..(Horizon - 1) :
        my_scripts_contains(my_scripts, script_at(d, i))

\* C6: once add(D) has returned Ok, contains(script_at(D, i)) is true for
\* every i below the horizon, and stays true through every later add: no
\* step takes a script or a descriptor out of the index.
C6_Monotonic ==
    /\ []C6_Contained
    /\ [][/\ my_scripts.cache \subseteq my_scripts'.cache
          /\ Range(my_scripts.descriptors) \subseteq Range(my_scripts'.descriptors)]_vars

\* C6 happens: two different descriptors added one after the other
C6_Witness ==
    /\ Len(my_scripts.descriptors) = 2
    /\ Cardinality(AddedDescriptors) = 2
    /\ C6_Contained

\* whether out is s with every marker, met left to right, turned into the
\* one character branch and every other character kept
RECURSIVE IsSubstituted(_, _, _)
IsSubstituted(s, out, branch) ==
    IF s = <<>> THEN out = <<>>
    ELSE IF Len(s) >= 5 /\ SubSeq(s, 1, 5) = <<"<", "0", ";", "1", ">">>
    THEN out # <<>> /\ Head(out) = branch /\ IsSubstituted(Drop(s, 5), Tail(out), branch)
    ELSE out # <<>> /\ Head(out) = Head(s) /\ IsSubstituted(Tail(s), Tail(out), branch)

\* C7: when explode_descriptor succeeds, external is the input with each
\* marker replaced by "0" and internal the input with each marker replaced by
\* "1", all else the same; with the marker twice in a row the two give "00"
\* and "11".
C7_Explosion ==
    (exploded # <<>> /\ exploded[1].kind = "Ok") =>
        /\ IsSubstituted(desc, exploded[1].external, "0")
        /\ IsSubstituted(desc, exploded[1].internal, "1")
        /\ desc = <<"K", "/", "<", "0", ";", "1", ">", "<", "0", ";", "1", ">">> =>
              /\ exploded[1].external = <<"K", "/", "0", "0">>
              /\ exploded[1].internal = <<"K", "/", "1", "1">>

\* C7 happens: a descriptor with the marker twice exploded
C7_Witness ==
    /\ exploded # <<>>
    /\ exploded[1].kind = "Ok"
    /\ \E a, b \in 1..Len(desc) :
          a < b /\ MatchAt(desc, MULTIPATH, a) /\ MatchAt(desc, MULTIPATH, b)

\* whether s holds the five characters of the marker in a row
HasMarker(s) ==
    \E k \in 1..(Len(s) - 4) :
        s[k] = "<" /\ s[k + 1] = "0" /\ s[k + 2] = ";" /\ s[k + 3] = "1" /\ s[k + 4] = ">"

\* whether s names an extended private key
HasPrivateKey(s) == \E k \in 1..Len(s) : s[k] = "k"

\* a multipath descriptor whose external branch parses
ParseableMultipath(s) ==
    HasMarker(s) /\ parse_descriptor(replace(s, MULTIPATH, <<"0">>)).kind = "Ok"

\* C8: on a parseable multipath descriptor explode_descriptor succeeds
\* exactly when the flag matches the presence of a private key; the flag
\* set without a private key gives WithPrivateKeyFlagButPublicDescriptor, the
\* flag unset with a private key WithoutPrivateKeyFlagButSecretDescriptor,
\* and a failure returns no pair.
C8_FlagMatchesKeys ==
    (exploded # <<>> /\ ParseableMultipath(desc)) =>
        LET r == exploded[1]
        IN  /\ r.kind = "Ok" <=> (with_private_keys <=> HasPrivateKey(desc))
            /\ (with_private_keys /\ ~HasPrivateKey(desc)) =>
                  r = [kind |-> "Err", err |-> "WithPrivateKeyFlagButPublicDescriptor"]
            /\ (~with_private_keys /\ HasPrivateKey(desc)) =>
                  r = [kind |-> "Err", err |-> "WithoutPrivateKeyFlagButSecretDescriptor"]
            /\ r.kind = "Err" => DOMAIN r = {"kind", "err"}

\* C8 happens: a descriptor of a public and a private key exploded without
\* the flag
C8_Witness ==
    /\ exploded # <<>>
    /\ ParseableMultipath(desc)
    /\ ~with_private_keys
    /\ HasPrivateKey(desc)
    /\ \E k \in 1..Len(desc) : desc[k] = "K"
    /\ exploded[1].kind = "Err"

\* C9: on a string without the marker explode_descriptor fails with
\* DescriptorIsntMultipath, whether or not the string parses and whatever
\* the flag.
C9_NotMultipath ==
    (exploded # <<>> /\ ~HasMarker(desc)) =>
        exploded[1] = [kind |-> "Err", err |-> "DescriptorIsntMultipath"]

\* C9 happens: a string without the marker that does not parse either and
\* names a private key, exploded without the flag
C9_Witness ==
    /\ exploded # <<>>
    /\ ~HasMarker(desc)
    /\ desc # <<>>
    /\ parse_descriptor(desc).kind = "Err"
    /\ HasPrivateKey(desc)
    /\ ~with_private_keys
    /\ exploded[1].err = "DescriptorIsntMultipath"

\* the inputs of p without a witness UTXO, by the code's index
MissingInputs(p) == {k - 1 : k \in {j \in 1..Len(p.inputs) : p.inputs[j].witness_utxo = <<>>}}

Smallest(S) == CHOOSE x \in S : \A y \in S : x <= y

\* the error of the first PSBT of ps that lacks a witness UTXO
FirstMissing(ps) ==
    LET j == Smallest({k \in 1..Len(ps) : MissingInputs(ps[k]) # {}})
    IN  [kind |-> "Err", err |-> <<"MissingWitnessUtxo", Smallest(MissingInputs(ps[j]))>>]

\* C10: when an input of a PSBT lacks a witness UTXO, psbt_detail returns
\* MissingWitnessUtxo(k), k the smallest index of such an input, and no
\* detail; psbt_details, once its descriptors are added and the PSBTs before
\* that one classified, returns that error and no report.
C10_MissingWitnessUtxo ==
    /\ (detail # <<>> /\ MissingInputs(psbt) # {}) =>
          detail[1].ret = [kind |-> "Err",
                           err  |-> <<"MissingWitnessUtxo", Smallest(MissingInputs(psbt))>>]
    /\ (/\ report # <<>>
        /\ \E k \in 1..Len(report[1].psbts) : MissingInputs(report[1].psbts[k]) # {}
        /\ \A k \in 1..Len(report[1].descriptors) :
              at_derivation_index(report[1].descriptors[k], 0).kind = "Ok") =>
          report[1].ret = FirstMissing(report[1].psbts)

\* C10 happens: a batch of two whose second PSBT has a witness UTXO on its
\* first input and none on its second
C10_Witness ==
    /\ report # <<>>
    /\ Len(report[1].psbts) = 2
    /\ MissingInputs(report[1].psbts[1]) = {}
    /\ MissingInputs(report[1].psbts[2]) = {1}
    /\ report[1].descriptors # <<>>
    /\ report[1].ret = [kind |-> "Err", err |-> <<"MissingWitnessUtxo", 1>>]

\* C11: when the output values of a PSBT sum to more than the witness-UTXO
\* values of its inputs (every input has one), psbt_detail returns an error
\* value: it neither panics nor returns a detail.
C11_NoUnderflow ==
    (/\ detail # <<>>
     /\ MissingInputs(psbt) = {}
     /\ SumOutputValues(psbt) > SumWitnessValues(psbt)) =>
        detail[1].ret.kind = "Err"

\* "psbts"
MagicText == <<112, 115, 98, 116, 115>>

\* C12: deserialize on at least five bytes of which the first five are not
\* "psbts" returns WrongMagic with exactly those five bytes, whatever
\* follows them, and so no PSBT.
C12_WrongMagic ==
    (cpc = "done" /\ Len(bytes) >= 5 /\ SubSeq(bytes, 1, 5) # MagicText) =>
        ret = <<[kind |-> "Err", err |-> <<"WrongMagic", SubSeq(bytes, 1, 5)>>]>>

\* C12 happens: bytes with a wrong magic, a wrong separator after it and
\* PSBT bytes after that, decoded
C12_Witness ==
    /\ cpc = "done"
    /\ Len(bytes) > 7
    /\ SubSeq(bytes, 1, 5) # MagicText
    /\ bytes[6] # 255
    /\ ret # <<>>
    /\ ret[1].kind = "Err"
    /\ ret[1].err[1] = "WrongMagic"

\* C13: deserialize on bytes that start with "psbts" and whose sixth byte is
\* not 0xFF returns WrongSeparator, and WrongSeparator is returned for such
\* bytes only: the magic is checked first.
C13_WrongSeparator ==
    /\ (/\ cpc = "done"
        /\ Len(bytes) >= 6
        /\ SubSeq(bytes, 1, 5) = MagicText
        /\ bytes[6] # 255) =>
          ret = <<[kind |-> "Err", err |-> <<"WrongSeparator">>]>>
    /\ (cpc = "done" /\ ret = <<[kind |-> "Err", err |-> <<"WrongSeparator">>]>>) =>
          /\ Len(bytes) >= 6
          /\ SubSeq(bytes, 1, 5) = MagicText
          /\ bytes[6] # 255

\* C13 happens: a container whose separator alone is damaged, decoded
C13_Witness ==
    /\ cpc = "done"
    /\ Len(bytes) > 7
    /\ SubSeq(bytes, 1, 5) = MagicText
    /\ bytes[6] = 0
    /\ ret = <<[kind |-> "Err", err |-> <<"WrongSeparator">>]>>

\* whether b starts with n well-formed PSBTs, one right after the other
RECURSIVE WellFormedBodies(_, _)
WellFormedBodies(b, n) ==
    IF n = 0 THEN TRUE
    ELSE LET d == PsbtDeserialize(b)
         IN  d.kind = "Ok" /\ WellFormedBodies(Drop(b, d.used), n - 1)

\* whether b has the magic and the separator in place
HeaderInPlace(b) == Len(b) >= 6 /\ SubSeq(b, 1, 5) = MagicText /\ b[6] = 255

\* the count b declares (b with the header in place and a readable count)
DeclaredCount(b) == VarIntDecode(Drop(b, 6)).value

\* a malformed container: shorter than its header, or with the header in
\* place and the count cut short or not minimal, or with fewer well-formed
\* PSBT bodies than the count declares
Malformed(b) ==
    \/ Len(b) < 5
    \/ Len(b) = 5 /\ b = MagicText
    \/ /\ HeaderInPlace(b)
       /\ VarIntDecode(Drop(b, 6)).kind = "Err"
    \/ /\ HeaderInPlace(b)
       /\ VarIntDecode(Drop(b, 6)).kind = "Ok"
       /\ ~WellFormedBodies(Drop(b, 6 + VarIntDecode(Drop(b, 6)).used), DeclaredCount(b))

ValidationErrors ==
    {"DescriptorIsntMultipath", "WithPrivateKeyFlagButPublicDescriptor",
     "WithoutPrivateKeyFlagButSecretDescriptor"}

WalletNamesOf(n) == {w.name : w \in n}

\* C15: when import fails with a validation error (the marker is absent or
\* the flag does not match the descriptor) the node's wallets are what they
\* were before the call, so no wallet of the requested name was created; and
\* whenever import changed the node's wallets the descriptor had passed
\* explode_descriptor under the flag given.
C15_ValidateFirst ==
    imported # <<>> =>
        LET c == imported[1]
        IN  /\ (c.ret.kind = "Err" /\ c.ret.err \in ValidationErrors) =>
                  /\ node = c.before
                  /\ c.wallet_name \notin WalletNamesOf(node) \ WalletNamesOf(c.before)
            /\ node # c.before =>
                  /\ explode_descriptor(c.desc, c.with_private_keys).kind = "Ok"
                  /\ WalletNamesOf(node) \ WalletNamesOf(c.before) = {c.wallet_name}

\* C15 happens: on a node that already has a wallet, the import of a private
\* descriptor without the flag under a new name fails
C15_Witness ==
    /\ imported # <<>>
    /\ imported[1].before # {}
    /\ imported[1].wallet_name \notin WalletNamesOf(imported[1].before)
    /\ ~imported[1].with_private_keys
    /\ imported[1].ret = [kind |-> "Err", err |-> "WithoutPrivateKeyFlagButSecretDescriptor"]
    /\ imported[1].wallet_name \notin WalletNamesOf(node)

\* the last line of a text
LastLine(text) == text[Len(text)]

\* the satoshi a rendered signed amount stands for
SignedSat(a) ==
    LET magnitude == a.btc * 100000000 + a.frac \div 10
    IN  IF a.negative THEN -magnitude ELSE magnitude

\* C16: whenever a GroupDetail built by merges is rendered, the net line
\* shows total incoming minus total outgoing as a signed amount, negative
\* exactly when outgoing exceeds incoming; it is the sum over the details
\* held of incoming minus outgoing; and the GroupDetail has no field for it.
C16_NetBalance ==
    (rendered # <<>> /\ rendered[1].ret.kind = "Ok") =>
        LET g   == rendered[1].group
            net == LastLine(rendered[1].ret.value)
        IN  /\ DOMAIN g = {"details", "outgoing", "incoming", "fee"}
            /\ net.label = "net"
            /\ net.amount.frac % 10 = 0
            /\ SignedSat(net.amount) = g.incoming - g.outgoing
            /\ net.amount.negative <=> g.outgoing > g.incoming
            /\ SignedSat(net.amount) =
                  SeqSum([k \in 1..Len(g.details) |->
                             g.details[k].incoming - g.details[k].outgoing])

\* C16 happens: a transaction with an owned input and a smaller owned output
\* merged twice and rendered
C16_Witness ==
    /\ rendered # <<>>
    /\ rendered[1].ret.kind = "Ok"
    /\ Len(rendered[1].group.details) = 2
    /\ rendered[1].group.details[1].txid = rendered[1].group.details[2].txid
    /\ rendered[1].group.details[1].incoming > 0
    /\ rendered[1].group.details[1].outgoing > rendered[1].group.details[1].incoming
    /\ LastLine(rendered[1].ret.value).amount.negative

\* C17: add is idempotent in effect: adding a descriptor the index already
\* holds leaves the index as it was, the membership predicate and the list
\* of descriptor strings both, so that the string of a descriptor is in the
\* list once.
C17_AddIdempotent ==
    (/\ added # <<>>
     /\ added[1].ret.kind = "Ok"
     /\ to_string(added[1].descriptor) \in Range(added[1].before.descriptors)) =>
        /\ my_scripts.cache = added[1].before.cache
        /\ my_scripts.descriptors = added[1].before.descriptors

\* whether descriptor derives at every index within the horizon
Derivable(descriptor) ==
    \A i \in 0..(Horizon - 1) : at_derivation_index(descriptor, i).kind = "Ok"

IndexOf(descriptors) == AddAll(MyScriptsNew(Horizon), descriptors).self

\* C19: merge never rejects and does not deduplicate: a batch that holds the
\* same PSBT n times, the PSBT one that psbt_detail classifies, yields a
\* report of n details of that txid whose outgoing, incoming and fee totals
\* are n times the values of the single transaction.
C19_NoDedup ==
    (/\ report # <<>>
     /\ \A k \in 1..Len(report[1].psbts) : report[1].psbts[k] = psbt
     /\ \A k \in 1..Len(report[1].descriptors) : Derivable(report[1].descriptors[k])
     /\ psbt_detail(0, psbt, IndexOf(report[1].descriptors), Network).kind = "Ok") =>
        LET n      == Len(report[1].psbts)
            single == psbt_detail(0, psbt, IndexOf(report[1].descriptors), Network).value
        IN  /\ report[1].ret.kind = "Ok"
            /\ Len(report[1].ret.value.details) = n
            /\ \A k \in 1..n : report[1].ret.value.details[k].txid = single.txid
            /\ report[1].ret.value.outgoing = n * single.outgoing
            /\ report[1].ret.value.incoming = n * single.incoming
            /\ report[1].ret.value.fee = n * single.fee

\* the lines of a text that open a transaction
TxLines(text) == SelectSeq(text, LAMBDA l : l.label = "tx")

\* C20: the report psbt_details returns has one detail per PSBT of the
\* batch, the k-th made from the k-th PSBT and carrying the index k - 1; its
\* rendering shows the transactions in that order and, after the last of
\* them, a '#txs' line with their number.
C20_BatchOrder ==
    (report # <<>> /\ report[1].ret.kind = "Ok") =>
        LET ps == report[1].psbts
            g  == report[1].ret.value
        IN  /\ Len(g.details) = Len(ps)
            /\ \A k \in 1..Len(ps) :
                  /\ g.details[k].i = k - 1
                  /\ g.details[k] =
                        psbt_detail(k - 1, ps[k], IndexOf(report[1].descriptors),
                                    Network).value
            /\ (rendered # <<>> /\ rendered[1].ret.kind = "Ok") =>
                  LET text == rendered[1].ret.value
                  IN  /\ Len(TxLines(text)) = Len(ps)
                      /\ \A k \in 1..Len(ps) :
                            /\ TxLines(text)[k].idx = k - 1
                            /\ TxLines(text)[k].txid = txid(extract_tx(ps[k]))
                      /\ text[Len(text) - 2] = [label |-> "#txs", count |-> Len(ps)]
                      /\ \A j \in 1..Len(text) :
                            text[j].label = "tx" => j < Len(text) - 2

\* C20 happens: a batch of two different transactions classified and
\* rendered
C20_Witness ==
    /\ report # <<>>
    /\ report[1].ret.kind = "Ok"
    /\ Len(report[1].psbts) = 2
    /\ txid(extract_tx(report[1].psbts[1])) # txid(extract_tx(report[1].psbts[2]))
    /\ report[1].descriptors # <<>>
    /\ rendered # <<>>
    /\ rendered[1].ret.kind = "Ok"
    /\ rendered[1].group = report[1].ret.value

\* C21: the input line of a classified PSBT carries a signed flag, set
\* exactly when the PSBT input has at least one partial signature, whether
\* or not the input is owned.
C21_SignedFlag ==
    (detail # <<>> /\ detail[1].ret.kind = "Ok") =>
        \A k \in 1..Len(psbt.inputs) :
            LET line == detail[1].ret.value.inputs[k]
            IN  /\ "signed" \in DOMAIN line
                /\ line.signed <=> psbt.inputs[k].partial_sigs # {}

RECURSIVE OccupiedBytes(_, _)
OccupiedBytes(b, n) ==
    IF n = 0 THEN 0
    ELSE LET d == PsbtDeserialize(b)
         IN  IF d.kind # "Ok" THEN -1
             ELSE LET more == OccupiedBytes(Drop(b, d.used), n - 1)
                  IN  IF more < 0 THEN -1 ELSE d.used + more

\* C23: after each PSBT it decodes, the decoder's offset has advanced by
\* exactly the bytes that PSBT occupied in the input, also for an input whose
\* PSBT re-serializes to a different length.
C23_AdvanceByConsumed ==
    (cpc \in {"loop", "done"} /\ iter >= 1) => bytes_read = OccupiedBytes(rest, iter)

\* C28: a successful deserialize returns exactly as many PSBTs as the count
\* declares, and the input is exactly the header, the count and those PSBTs:
\* bytes after the last PSBT are not accepted.
C28_NoTrailingBytes ==
    (cpc = "done" /\ ret[1].kind = "Ok") =>
        /\ Len(ret[1].value) = DeclaredCount(bytes)
        /\ Len(bytes) = (Len(bytes) - Len(rest)) + OccupiedBytes(rest, len)

\* C24: a detail holds the descriptor strings and the amounts of the index
\* as it was when the PSBT was classified, and does not change afterwards:
\* an add to the index leaves a detail taken before as it is, and a detail
\* taken after the add holds the descriptors and amounts of the larger index.
C24_Snapshot ==
    /\ []((detail # <<>> /\ detail[1].ret.kind = "Ok") =>
            LET d  == detail[1].ret.value
                at == detail[1].my_scripts
            IN  /\ d.descriptors = at.descriptors
                /\ d.outgoing = SeqSum([k \in 1..Len(psbt.inputs) |->
                                     IF at.cache \cap {psbt.inputs[k].witness_utxo[1].script_pubkey} # {}
                                     THEN psbt.inputs[k].witness_utxo[1].value ELSE 0])
                /\ d.incoming = SeqSum([k \in 1..Len(psbt.outputs) |->
                                     IF psbt.outputs[k].script_pubkey \in at.cache
                                     THEN psbt.outputs[k].value ELSE 0]))
    /\ [][my_scripts' # my_scripts => detail' = detail]_vars

\* C24 happens: a PSBT was classified, then a descriptor was added that owns
\* one of its outputs; the detail still holds the shorter descriptor list and
\* the smaller incoming amount, and classifying now gives the larger ones
C24_Witness ==
    /\ detail # <<>>
    /\ detail[1].ret.kind = "Ok"
    /\ Len(detail[1].ret.value.descriptors) = 1
    /\ Len(my_scripts.descriptors) = 2
    /\ SubSeq(my_scripts.descriptors, 1, 1) = detail[1].ret.value.descriptors
    /\ psbt_detail(0, psbt, my_scripts, Network).kind = "Ok"
    /\ psbt_detail(0, psbt, my_scripts, Network).value.incoming
           > detail[1].ret.value.incoming

\* whether a record with the txid and the descriptor of b is among recs
MergedBefore(recs, b) ==
    \E j \in 1..Len(recs) : recs[j].txid = b.txid /\ recs[j].descriptor = b.descriptor

\* C25: Balances::merge returns MergeSame exactly when a record of the same
\* txid and descriptor was merged before, and then leaves outgoing, incoming,
\* fee and the map from txid to descriptors as they were; every other merge
\* succeeds.
C25_MergeSame ==
    merge_ret # <<>> =>
        LET m == merge_ret[1]
        IN  IF MergedBefore(m.seen, m.other)
            THEN /\ m.ret = [kind |-> "Err", err |-> <<"MergeSame">>]
                 /\ acc_balances = m.before
            ELSE m.ret.kind = "Ok"

\* C26: after successful merges the fee total is the sum, over the distinct
\* txids merged, of the transaction's fee (the fee of the first record merged
\* for the txid: a txid is counted once however many descriptors it is merged
\* under), and outgoing and incoming are the sums over every merged record.
C26_FeeOncePerTxid ==
    /\ acc_balances.outgoing = SeqSum([j \in 1..Len(merged) |-> merged[j].outgoing])
    /\ acc_balances.incoming = SeqSum([j \in 1..Len(merged) |-> merged[j].incoming])
    /\ acc_balances.fee =
           SeqSum([j \in 1..Len(merged) |->
                      IF \E i \in 1..(j - 1) : merged[i].txid = merged[j].txid
                      THEN 0 ELSE merged[j].fee])
    /\ DOMAIN acc_balances.txids_descriptors = {merged[j].txid : j \in 1..Len(merged)}
    /\ (\A i, j \in 1..Len(merged) :
            merged[i].txid = merged[j].txid => merged[i].fee = merged[j].fee) =>
           acc_balances.fee =
               LET ids == {merged[j].txid : j \in 1..Len(merged)}
                   fee_of(t) == (CHOOSE j \in 1..Len(merged) : merged[j].txid = t)
               IN  SeqSum([j \in 1..Len(merged) |->
                              IF fee_of(merged[j].txid) = j THEN merged[j].fee ELSE 0])

\* C26 happens: one transaction merged under both descriptors and another
\* transaction merged after it, each with a fee above zero
C26_Witness ==
    /\ Len(merged) = 3
    /\ merged[1].txid = merged[2].txid
    /\ merged[1].descriptor # merged[2].descriptor
    /\ merged[1].fee = merged[2].fee
    /\ merged[3].txid # merged[1].txid
    /\ merged[1].fee > 0
    /\ merged[3].fee > 0
    /\ acc_balances.fee = merged[1].fee + merged[3].fee
    /\ acc_balances.outgoing + acc_balances.incoming > 0

\* C27: the fee balance_single reports is the sum of the witness-UTXO values
\* of all inputs minus the sum of the values of all outputs, whichever inputs
\* and outputs the descriptor owns.
C27_FeeOverAll ==
    (balance # <<>> /\ balance[1].ret.kind = "Ok") =>
        balance[1].ret.value.fee
            = SeqSum([k \in 1..Len(balance[1].psbt.inputs) |->
                         IF balance[1].psbt.inputs[k].witness_utxo = <<>> THEN 0
                         ELSE balance[1].psbt.inputs[k].witness_utxo[1].value])
              - SeqSum([k \in 1..Len(balance[1].psbt.outputs) |->
                           balance[1].psbt.outputs[k].value])

\* C29: sign issues walletpassphrase before the first walletprocesspsbt,
\* processes the PSBTs one by one in input order into a list of the same
\* length and order, and whenever it returns, with the list or with an error
\* met while processing a PSBT, the wallet has been locked again.
C29_LockedOnReturn ==
    /\ \A k \in 1..Len(calls) :
          calls[k] = "walletprocesspsbt" =>
              \E j \in 1..(k - 1) : calls[j] = "walletpassphrase"
    /\ \A k \in 1..Len(results) : results[k] = WalletProcessPsbt(to_sign[k])
    /\ (sign_ret # <<>> /\ sign_ret[1].kind = "Ok") =>
          /\ Len(sign_ret[1].value) = Len(to_sign)
          /\ sign_ret[1].value = results
    /\ (sign_ret # <<>> /\ sign_ret[1].kind # "Panic"
            /\ \E k \in 1..Len(calls) : calls[k] = "walletpassphrase") =>
          /\ calls[Len(calls)] = "walletlock"
          /\ wallet_locked

\* the labels that name an outpoint the wallet listed
UnspentLabels == { OutPointToString(list_unspent[k]) : k \in 1..Len(list_unspent) }

\* the derivation indexes chosen so far
ChosenAddresses ==
    { locktime_result[k].address : k \in 1..Len(locktime_result) }
    \cup { output_address[k].index : k \in 1..Len(output_address) }

====
